---- MODULE Spec2Model ----
(***************************************************************************)
(* State-machine model of the Aggregator of c/models/aggregator.h:         *)
(* Aggregator<T>::aggregate with its grouping methods (group_0d, group_1d, *)
(* group_2d, group_nd), the sampler sample_exemplars and the finalizer     *)
(* aggregate_exemplars.                                                    *)
(*                                                                         *)
(* Conventions of the model                                                *)
(*  - rows are numbered 0..nrows-1, columns 1..Len(stypes);                *)
(*  - a cell is NAcell (missing) or a small natural number; for a string   *)
(*    column the number names the string (equal numbers = equal strings);  *)
(*  - the members column holds int32 values, NA_I4 being GETNA<int32_t>(); *)
(*  - T-valued arithmetic is exact real arithmetic, `epsilon` a positive   *)
(*    quantity smaller than every difference of two values of the model.   *)
(***************************************************************************)
EXTENDS Integers, Sequences, FiniteSets, TLC

\* ------------------------------------------------------------------ bounds
MaxRows == 3
MaxRows2D == 2
MaxVal == 1
MaxBins == 2
MaxNdBins == 2
MaxCoord == 2
MaxThreads == 2
MaxCalls == 3
MaxRowsNd == 4
\* calculate_distance on its own: at most MaxDims components, delta at most
\* MaxDelta2 halves.
MaxDims == 2
MaxDelta2 == 8
\* ParallelReader: inputs of at most MaxInput line units, row limits up to
\* MaxNrowsMax (or none).
MaxInput == 6
MaxNrowsMax == 4

\* ------------------------------------------------------- program constants
\* GETNA<int32_t>(): the missing value of the members column.
NA_I4 == -2147483647 - 1
\* The missing value of an input cell (ISNA<T>, ISNA<U0>).
NAcell == -1
\* `dt->ncols < 3`: categorical columns are kept only below this width.
CatLimit == 3

Kinds == {"num", "str", "obj"}
Val == {NAcell} \cup (0..MaxVal)
\* The bin counts tried: one bin, and the largest count.
BinCounts == {1, MaxBins}
\* The coordinates tried in group_nd: unevenly spaced, so that some pairs of
\* exemplars are closer than half the mean distance and adjust_delta merges.
CoordGrid == {c * c : c \in 0..MaxCoord}

ISNA(v) == v = NAcell
B2I(b) == IF b THEN 1 ELSE 0
Min2(a, b) == IF a <= b THEN a ELSE b

\* -------------------------------------------------------------- variables
VARIABLES
  nrows,        \* dt->nrows
  stypes,       \* kind of every column of dt
  cells,        \* cells[c][r]: value of column c at row r
  min_rows, n_bins, nx_bins, ny_bins, nd_max_bins,
  pc,           \* position inside aggregate()
  path,         \* which grouping method ran
  members,      \* column 0 of dt_members (d_members)
  max_bins, n_na_bins,
  gb_members,   \* the members column as grouped by sample_exemplars
  k,            \* selection counter of sample_exemplars
  was_sampled,
  exemplar_indices, members_count,   \* built by aggregate_exemplars
  dt_exemplars_in, dt_members_in,    \* the caller's output references
  coords,       \* coords[r]: the member vector of row r in group_nd (ndims = 1)
  nth,          \* number of threads of the parallel region of group_nd
  exemplars,    \* the exemplar vector: records [id, row], row = creating row
  ids,          \* ids[e]: the exemplar that exemplar e was merged into
  coprimes,
  delta,        \* [nan, num, den]: sqrt(delta) = sqrt(epsilon) + num/den
  ecounter,
  wpc, wrow, ecounter_local,         \* per thread: position, row i, snapshot
  oem,          \* OmpExceptionManager: "none" or the kind of the exception held
  progress_log, \* the calls progress(fraction, status) made so far, as
                \* <<numerator of the fraction over nrows, status>>
  seed,         \* the member `seed`, by origin: "zero", "user", "entropy"
  gen_seed,     \* what each random generator was last seeded with
  ncall         \* number of the aggregate() call on this Aggregator

\* One call of calculate_distance with each value of early_exit on the same
\* arguments.
VARIABLES
  d_ndims,      \* the argument ndims
  d_e1, d_e2,   \* the vectors e1, e2: sequences of ndims components
  d_delta,      \* the argument delta, counted in halves
  distance      \* distance[early_exit]: the value returned

distvars == <<d_ndims, d_e1, d_e2, d_delta, distance>>

\* ParallelReader of c/read/parallel_reader.cc. Positions in the input are
\* offsets from input_start; the input is a sequence of lines, one row each.
VARIABLES
  input_end,
  line_starts,  \* the offsets at which a line of the input starts
  approximate_line_length,
  nthreads, chunk_size, chunk_count,
  end_of_last_chunk,
  nrows_written, nrows_allocated, nrows_max,
  columns_nrows,    \* g.columns.get_nrows()
  rpc,          \* position inside read_all()
  roem,         \* the OmpExceptionManager of read_all: [exc, stop]
  next_chunk,   \* the next iteration the dynamic schedule hands out
  ordered_done, \* the iterations that are past their ordered section
  tpc,          \* per thread: position inside the parallel region
  ti,           \* per thread: the iteration i
  txcc, tacc,   \* per thread: expected and actual chunk coordinates
  used_nrows, row0,     \* per thread: tctx->used_nrows, tctx->row0
  committed,    \* the chunks for which nrows_written was advanced, in order
  pushed        \* the buffers handed to push_buffers, as [row0, used_nrows]

readerinput == <<input_end, line_starts, approximate_line_length, nrows_max>>
chunking == <<nthreads, chunk_size, chunk_count>>
threadstate == <<tpc, ti, txcc, tacc, used_nrows, row0>>
readervars == <<readerinput, chunking, end_of_last_chunk, nrows_written,
                nrows_allocated, columns_nrows, rpc, roem, next_chunk,
                ordered_done, threadstate, committed, pushed>>

vars == <<nrows, stypes, cells, min_rows, n_bins, nx_bins, ny_bins, nd_max_bins,
          pc, path, members, max_bins, n_na_bins, gb_members, k, was_sampled,
          exemplar_indices, members_count, dt_exemplars_in, dt_members_in,
          coords, nth, exemplars, ids, coprimes, delta, ecounter,
          wpc, wrow, ecounter_local, oem, progress_log, seed, gen_seed, ncall,
          d_ndims, d_e1, d_e2, d_delta, distance, readervars>>

inputs == <<nrows, stypes, cells, min_rows, n_bins, nx_bins, ny_bins, nd_max_bins,
            coords, nth>>
ndstate == <<exemplars, ids, coprimes, delta, ecounter, wpc, wrow, ecounter_local>>
rng == <<seed, gen_seed, ncall>>

Rows == 0..(nrows - 1)

\* ---------------------------------------------------- the group-by primitive
\* DataTable::group(sort_spec(0)) on a one-column integer table `m`: the rows
\* are sorted by value (stably, the missing value first) and cut into groups
\* of equal value. Group g (0-based) is described by its rows.
Keys(m) == {m[i] : i \in DOMAIN m}
ngroups(m) == Cardinality(Keys(m))
GroupOf(m, v) == Cardinality({u \in Keys(m) : u < v})
GroupRows(m, g) == {i \in DOMAIN m : GroupOf(m, m[i]) = g}
SetMin(S) == CHOOSE x \in S : \A y \in S : x <= y
\* ri_members[offsets[g]]: the first row of group g in sorted order.
FirstRow(m, g) == SetMin(GroupRows(m, g))
\* offsets[g+1] - offsets[g]
GroupSize(m, g) == Cardinality(GroupRows(m, g))


\* ------------------------------------------------------------- dispatcher
\* The indices of the columns for which a column convertor is made
\* (contconvs), in column order.
ContCols(st) ==
  LET F[n \in 0..Len(st)] ==
        IF n = 0 THEN <<>>
        ELSE IF st[n] = "num" THEN Append(F[n - 1], n) ELSE F[n - 1]
  IN F[Len(st)]

\* The columns of dt_cat: the non-numeric columns, kept only when the input
\* has fewer than CatLimit columns.
CatCols(st) ==
  LET F[n \in 0..Len(st)] ==
        IF n = 0 THEN <<>>
        ELSE IF st[n] # "num" /\ Len(st) < CatLimit THEN Append(F[n - 1], n)
             ELSE F[n - 1]
  IN F[Len(st)]

contconvs == ContCols(stypes)
dt_cat == CatCols(stypes)
\* Variant: the switch is on the column count of the input table.
ncols_total == Len(stypes)
\* ncols = contconvs.size() + dt_cat->ncols
ncols == Len(contconvs) + Len(dt_cat)

\* max_bins chosen by the switch on ncols.
MaxBinsOf(n) ==
  CASE n = 1 -> n_bins
    [] n = 2 -> nx_bins * ny_bins
    [] OTHER -> nd_max_bins

\* n_na_bins chosen by the switch on ncols.
\* Variant: the 1-D and the 2-D allowances for missing-value bins exchanged.
NNaBinsOf_swapped(n) ==
  CASE n = 1 -> 3
    [] n = 2 -> 1
    [] OTHER -> 0
NNaBinsOf(n) ==
  CASE n = 1 -> 1
    [] n = 2 -> 3
    [] OTHER -> 0

\* --------------------------------------------------- column convertor, norm
NonNA(c) == {cells[c][r] : r \in Rows} \ {NAcell}
SetMax(S) == CHOOSE x \in S : \A y \in S : y <= x
\* get_min() / get_max(): over the non-missing values, 0 for a wholly
\* missing column.
get_min(c) == IF NonNA(c) = {} THEN 0 ELSE SetMin(NonNA(c))
get_max(c) == IF NonNA(c) = {} THEN 0 ELSE SetMax(NonNA(c))

\* static_cast<int32_t>(norm_factor * value + norm_shift) with the
\* coefficients of set_norm_coeffs(c_min, c_max, c_bins):
\*   factor = c_bins * (1 - epsilon) / (c_max - c_min), shift = -factor * c_min
\*   for a non-constant column, factor = 0 and shift = 0.5 * c_bins otherwise.
\* x * (1 - epsilon) truncates to x - 1 when x is a positive integer.
NormBin(value, c_min, c_max, c_bins) ==
  IF c_max - c_min > 0
  THEN LET num == c_bins * (value - c_min)
           den == c_max - c_min
       IN IF num > 0 /\ num % den = 0 THEN (num \div den) - 1 ELSE num \div den
  ELSE c_bins \div 2

\* ------------------------------------------------------------ group_0d
\* The sort of dt by its first column, missing values last, ties in row order.
SortKey0(v) == IF ISNA(v) THEN MaxVal + 1 ELSE v
\* The position of row j in the row index returned by dt->group(spec).
SortRank(j) ==
  Cardinality({r \in Rows :
     \/ SortKey0(cells[1][r]) < SortKey0(cells[1][j])
     \/ SortKey0(cells[1][r]) = SortKey0(cells[1][j]) /\ r < j})
\* Variant: the callback writes d_members[i] = j.
members_0d_swapped(j) == CHOOSE r \in Rows : SortRank(r) = j
\* d_members[j] = i where j is the row at sorted position i.
members_0d(j) == SortRank(j)

\* --------------------------------------------------- group_1d_continuous
\* Variant: the missing value is binned like a value, into bin 0.
members_1d_continuous_nona(i) ==
  LET c == contconvs[1]
      value == cells[c][i]
  IN IF ISNA(value) THEN 0
     ELSE NormBin(value, get_min(c), get_max(c), n_bins)
\* Variant: the coefficients are computed for one bin, as normalize_row does.
members_1d_continuous_unit(i) ==
  LET c == contconvs[1]
      value == cells[c][i]
  IN IF ISNA(value) THEN NA_I4
     ELSE NormBin(value, get_min(c), get_max(c), 1)
members_1d_continuous(i) ==
  LET c == contconvs[1]
      value == cells[c][i]
  IN IF ISNA(value) THEN NA_I4
     ELSE NormBin(value, get_min(c), get_max(c), n_bins)

\* -------------------------------------------------- group_1d_categorical
\* d_members[ri0[j]] = i for every row of group i of dt_cat->group({0}).
members_1d_categorical(i) ==
  LET c == dt_cat[1] IN GroupOf(cells[c], cells[c][i])

\* ----------------------------------------------------------- group_2d_*
\* na_case = ISNA(first) + 2 * ISNA(second)
na_case(isna0, isna1) == B2I(isna0) + 2 * B2I(isna1)

\* Variant: the two bin numbers are added, the y-bin not scaled by nx_bins.
members_2d_continuous_sum(i) ==
  LET c0 == contconvs[1]
      c1 == contconvs[2]
      value0 == cells[c0][i]
      value1 == cells[c1][i]
      nc == na_case(ISNA(value0), ISNA(value1))
  IN IF nc # 0 THEN -nc
     ELSE NormBin(value1, get_min(c1), get_max(c1), ny_bins)
          + NormBin(value0, get_min(c0), get_max(c0), nx_bins)
members_2d_continuous(i) ==
  LET c0 == contconvs[1]
      c1 == contconvs[2]
      value0 == cells[c0][i]
      value1 == cells[c1][i]
      nc == na_case(ISNA(value0), ISNA(value1))
  IN IF nc # 0 THEN -nc
     ELSE NormBin(value1, get_min(c1), get_max(c1), ny_bins) * nx_bins
          + NormBin(value0, get_min(c0), get_max(c0), nx_bins)

\* dt_cat->group({0, 1}): the groups of equal (column 0, column 1) pairs in
\* lexicographic order, modelled through one integer key per row.
PairKey(i) ==
  (cells[dt_cat[1]][i] + 1) * (MaxVal + 2) + (cells[dt_cat[2]][i] + 1)

members_2d_categorical(i) ==
  LET keycol == [r \in Rows |-> PairKey(r)]
      nc == na_case(ISNA(cells[dt_cat[1]][i]), ISNA(cells[dt_cat[2]][i]))
  IN IF nc # 0 THEN -nc ELSE GroupOf(keycol, keycol[i])

members_2d_mixed(i) ==
  LET cc == contconvs[1]
      ct == dt_cat[1]
      nc == na_case(ISNA(cells[cc][i]), ISNA(cells[ct][i]))
      group_cat_id == nx_bins * GroupOf(cells[ct], cells[ct][i])
  IN IF nc # 0 THEN -nc
     ELSE group_cat_id + NormBin(cells[cc][i], get_min(cc), get_max(cc), nx_bins)

\* The ValueError of group_2d_categorical / group_2d_mixed: a column of dt_cat
\* that is neither STR32 nor STR64.
SchemaError == ncols = 2 /\ \E j \in 1..Len(dt_cat) : stypes[dt_cat[j]] # "str"


\* --------------------------------------------------------- sample_exemplars
\* gb_members.ngroups() > max_bins + n_na_bins
\* Variant: sampling only above max_bins + n_na_bins + 1 groups.
SampleNeeded_plus1(ng, mb, nna) == ng > mb + nna + 1
SampleNeeded(ng, mb, nna) == ng > mb + nna
\* while (k < max_bins)
\* Variant: the loop runs while k <= max_bins.
SelectMore_le(kk, mb) == kk <= mb
SelectMore(kk, mb) == kk < mb
\* ISNA<int32_t>(d_members[ri_members[off_i]]): group g of the grouped column
\* has not been selected yet.
Unselected(m, gb, g) == m[FirstRow(gb, g)] = NA_I4
\* d_members[ri_members[j]] = k for every row j of group g.
SelectGroup(m, gb, g, kk) ==
  [i \in DOMAIN m |-> IF GroupOf(gb, gb[i]) = g THEN kk ELSE m[i]]

\* ------------------------------------------------------ aggregate_exemplars
\* n_exemplars = gb_members.ngroups() - was_sampled
n_exemplars(ng, ws) == ng - B2I(ws)
\* i_sampled = i - was_sampled
\* Variant: the missing-value group is not skipped in the numbering.
i_sampled_unshifted(i, ws) == i
i_sampled(i, ws) == i - B2I(ws)
\* exemplar_indices[i_sampled] = ri_members[offsets[i]]
\* Variant: the group number is stored instead of the group's first row.
ExemplarIndex_group(m, i) == i
ExemplarIndex(m, i) == FirstRow(m, i)
\* d_counts[i_sampled] = offsets[i+1] - offsets[i]
\* Variant: the end offset of the group is stored, not the difference.
Count_offset(m, i) == Cardinality({r \in DOMAIN m : GroupOf(m, m[r]) <= i})
Count(m, i) == GroupSize(m, i)
\* d_members[ri_members[offsets[i] + j]] = i_sampled for i >= was_sampled
\* Variant: the shift is taken off the stored value, not off the group number.
FinalMembers_decrement(m, ws) ==
  [r \in DOMAIN m |-> IF m[r] = NA_I4 THEN NA_I4 ELSE m[r] - B2I(ws)]
FinalMembers(m, ws) ==
  [r \in DOMAIN m |->
     IF GroupOf(m, m[r]) >= B2I(ws) THEN i_sampled(GroupOf(m, m[r]), ws)
     ELSE m[r]]

\* ----------------------------------------------------------------- group_nd
\* ndims = min(max_dimensions, ncols): the model fixes max_dimensions = 1, so
\* that rows are projected (project_row) to one coordinate, which is missing
\* exactly when the row has no non-missing value (r[j] /= n with n = 0).
ndims == 1
\* The value of 0.0 / 0: not a number. Every comparison with it is false.
NaN == -1

GCD(a, b) ==
  LET G[x \in 0..a, y \in 0..b] ==
        IF y = 0 THEN x ELSE IF x = 0 THEN y
        ELSE IF x >= y THEN G[x - y, y] ELSE G[x, y - x]
  IN G[a, b]

\* T delta = epsilon
DeltaEpsilon == [nan |-> FALSE, num |-> 0, den |-> 1]
DeltaNaN == [nan |-> TRUE, num |-> 0, den |-> 1]
\* distance < delta, for a distance x that is NaN or the square of a number of
\* the grid: sqrt(x) < sqrt(epsilon) + num/den iff sqrt(x) <= num/den.
LessDelta(x, dl) == x # NaN /\ ~dl.nan /\ x * dl.den * dl.den <= dl.num * dl.num
\* sum > delta
GreaterDelta(x, dl) == x # NaN /\ ~dl.nan /\ x * dl.den * dl.den > dl.num * dl.num
\* sqrt(distance) of a square
Sqrt(x) == CHOOSE r \in 0..x : r * r = x

\* calculate_distance(e1, e2, ndims, delta, early_exit) on vectors of ndims = 1
\* coordinates.
calculate_distance(e1, e2, dl, early_exit) ==
  LET skip == ISNA(e1) \/ ISNA(e2)
      n == IF skip THEN 0 ELSE 1
      sum == IF skip THEN 0 ELSE (e1 - e2) * (e1 - e2)
  IN IF ~skip /\ early_exit /\ GreaterDelta(sum, dl) THEN sum
     ELSE IF n = 0 THEN NaN
     ELSE (sum * ndims) \div n

\* calculate_distance(e1, e2, ndims, delta, early_exit) on vectors of nd
\* components; dl2 is delta in halves. The value is the fraction num / den,
\* or not a number.
\* Variant: the mean of the squares, without the factor ndims.
Normalized_mean(sum, nd, n) ==
  IF n = 0 THEN [nan |-> TRUE, num |-> 0, den |-> 1]
  ELSE [nan |-> FALSE, num |-> sum, den |-> n]
\* return sum * ndims / n
Normalized(sum, nd, n) ==
  IF n = 0 THEN [nan |-> TRUE, num |-> 0, den |-> 1]
  ELSE [nan |-> FALSE, num |-> sum * nd, den |-> n]

\* The loop over the components from component i on, with the sum and the
\* count n reached so far.
RECURSIVE DistanceLoop(_, _, _, _, _, _, _, _)
DistanceLoop(e1, e2, nd, dl2, early_exit, i, sum, n) ==
  IF i > nd THEN Normalized(sum, nd, n)
  ELSE IF ISNA(e1[i]) \/ ISNA(e2[i])
       THEN DistanceLoop(e1, e2, nd, dl2, early_exit, i + 1, sum, n)
       ELSE LET s == sum + (e1[i] - e2[i]) * (e1[i] - e2[i])
            IN IF early_exit /\ 2 * s > dl2
               THEN [nan |-> FALSE, num |-> s, den |-> 1]
               ELSE DistanceLoop(e1, e2, nd, dl2, early_exit, i + 1, s, n + 1)

calculate_distance_n(e1, e2, nd, dl2, early_exit) ==
  DistanceLoop(e1, e2, nd, dl2, early_exit, 1, 0, 0)

\* distance < delta
BelowDelta(d, dl2) == ~d.nan /\ 2 * d.num < dl2 * d.den

\* calculate_coprimes(n, coprimes): the k in [1, n) with gcd(k, n) = 1, in
\* increasing order; {1} for n = 1.
Coprimes(n) ==
  LET S == {c \in 1..(n - 1) : GCD(c, n) = 1}
      F[m \in 0..n] ==
        IF m = 0 THEN <<>>
        ELSE IF m \in S THEN Append(F[m - 1], m) ELSE F[m - 1]
  IN IF n = 1 THEN <<1>> ELSE F[n]

\* The pairs (i, j), i < j < n, in the order of the two nested loops of
\* adjust_delta; position kk of the array `deltas`.
PairsOf(n) == {p \in (0..(n - 1)) \X (0..(n - 1)) : p[1] < p[2]}
PairAt(n, kk) ==
  CHOOSE p \in PairsOf(n) :
    Cardinality({q \in PairsOf(n) :
                   q[1] < p[1] \/ (q[1] = p[1] /\ q[2] < p[2])}) = kk

ExCoords(ex, j) == coords[ex[j + 1].row]
\* deltas[kk]
Deltas(ex, dl, kk) ==
  LET p == PairAt(Len(ex), kk)
  IN calculate_distance(ExCoords(ex, p[1]), ExCoords(ex, p[2]), dl, FALSE)

\* total_distance: the sum of sqrt(deltas[kk]), NaN as soon as one term is.
RECURSIVE TotalDistance(_, _, _)
TotalDistance(ex, dl, kk) ==
  IF kk = 0 THEN 0
  ELSE LET rest == TotalDistance(ex, dl, kk - 1)
           d == Deltas(ex, dl, kk - 1)
       IN IF rest = NaN \/ d = NaN THEN NaN ELSE rest + Sqrt(d)

\* Variant: a pair at exactly the merge radius is merged too.
BelowMerge_le(d, hn, hd) == d # NaN /\ hn # NaN /\ Sqrt(d) * hd <= hn
\* deltas[kk] < delta_merge, where sqrt(delta_merge) = hn / hd.
BelowMerge(d, hn, hd) == d # NaN /\ hn # NaN /\ Sqrt(d) * hd < hn

\* Variant: the exemplar at the lower position is redirected to the other one.
Redirect_reversed(idv, from, to) == [idv EXCEPT ![to + 1] = from]
\* ids[exemplars[j]->id] = exemplars[i]->id, with from = exemplars[j]->id and
\* to = exemplars[i]->id.
Redirect(idv, from, to) == [idv EXCEPT ![from + 1] = to]

\* The merging loop of adjust_delta from position kk on: `gone` holds the
\* positions set to nullptr, `idv` is the ids vector.
RECURSIVE MergeLoop(_, _, _, _, _, _, _)
MergeLoop(ex, dl, kk, gone, idv, hn, hd) ==
  IF kk = (Len(ex) * Len(ex) - Len(ex)) \div 2 THEN [gone |-> gone, ids |-> idv]
  ELSE LET p == PairAt(Len(ex), kk)
       IN IF BelowMerge(Deltas(ex, dl, kk), hn, hd)
              /\ p[1] \notin gone /\ p[2] \notin gone
          THEN MergeLoop(ex, dl, kk + 1, gone \cup {p[2]},
                         Redirect(idv, ex[p[2] + 1].id, ex[p[1] + 1].id),
                         hn, hd)
          ELSE MergeLoop(ex, dl, kk + 1, gone, idv, hn, hd)

\* Variant: the entries set to nullptr stay in the vector.
Compact_keep(ex, gone) == ex
\* exemplars.erase(remove(begin, end, nullptr), end)
Compact(ex, gone) ==
  LET F[m \in 0..Len(ex)] ==
        IF m = 0 THEN <<>>
        ELSE IF (m - 1) \in gone THEN F[m - 1] ELSE Append(F[m - 1], ex[m])
  IN F[Len(ex)]

\* delta += delta_merge + 2 * sqrt(delta * delta_merge), i.e.
\* sqrt(delta) grows by sqrt(delta_merge) = hn / hd.
GrowDelta(dl, hn, hd) ==
  IF dl.nan \/ hn = NaN THEN DeltaNaN
  ELSE LET a == dl.num * hd + hn * dl.den
           b == dl.den * hd
           g == GCD(a, b)
       IN [nan |-> FALSE, num |-> a \div g, den |-> b \div g]

\* adjust_delta(delta, exemplars, ids, ndims): the new delta, exemplars, ids.
adjust_delta(dl, ex, idv) ==
  LET n == Len(ex)
      n_distances == (n * n - n) \div 2
      total_distance == TotalDistance(ex, dl, n_distances)
      \* delta_merge = pow(0.5 * total_distance / n_distances, 2): 0 / 0 for
      \* n_distances = 0
      hn == IF n_distances = 0 THEN NaN ELSE total_distance
      hd == 2 * n_distances
      m == MergeLoop(ex, dl, 0, {}, idv, hn, hd)
  IN [delta |-> GrowDelta(dl, hn, hd),
      exemplars |-> Compact(ex, m.gone),
      ids |-> m.ids]

\* Variant: the parent is returned, not the end of the chain.
calculate_map_parent(idv, id) == idv[id + 1]
\* calculate_map(ids, id)
RECURSIVE calculate_map(_, _)
calculate_map(idv, id) ==
  IF id = idv[id + 1] THEN id ELSE calculate_map(idv, idv[id + 1])

\* The scan of test_member: exemplar j = (kk * coprimes[coprime_index] +
\* exemplar_index) % nexemplars for kk = 0, 1, ...; the id of the first one
\* within delta of `member`, or -1 when the loop ends with is_exemplar true.
\* Variant: the stride is the index drawn, not the coprime at that index.
ScanIndex_index(kk, exemplar_index, coprime_index) ==
  (kk * coprime_index + exemplar_index) % Len(exemplars)
ScanIndex(kk, exemplar_index, coprime_index) ==
  (kk * coprimes[coprime_index + 1] + exemplar_index) % Len(exemplars)

TestMember(member, exemplar_index, coprime_index) ==
  LET hits == {kk \in 0..(Len(exemplars) - 1) :
                 LET j == ScanIndex(kk, exemplar_index, coprime_index)
                 IN LessDelta(calculate_distance(member, ExCoords(exemplars, j),
                                                 delta, TRUE), delta)}
  IN IF hits = {} THEN -1
     ELSE exemplars[ScanIndex(SetMin(hits), exemplar_index, coprime_index) + 1].id

\* Variant: the exclusive block does not compare the counters.
SnapshotValid_always(local, counter) == TRUE
\* Variant: the exclusive block always sends the thread back to the scan.
SnapshotValid_never(local, counter) == FALSE
\* if (ecounter_local == ecounter): nothing was inserted since the scan.
SnapshotValid(local, counter) == local = counter

\* Variant: the id is the number of exemplars in the vector.
NewExemplarId_size(idv) == Len(exemplars)
\* Variant: the id is taken after ids.push_back.
NewExemplarId_after(idv) == Len(idv) + 1
\* exemplar{ids.size(), ...}: the id of a new exemplar.
NewExemplarId(idv) == Len(idv)

\* Variant: the new exemplar is put at the front of the vector.
PushExemplar_front(ex, e) == <<e>> \o ex
\* exemplars.push_back(std::move(e))
PushExemplar(ex, e) == Append(ex, e)

\* ------------------------------------------------- progress, seeds, errors
\* #define PBSTEPS 100
PBSTEPS == 100
\* rstep = (nrows > nth * PBSTEPS)? nrows / (nth * PBSTEPS) : 1
rstep == IF nrows > nth * PBSTEPS THEN nrows \div (nth * PBSTEPS) ELSE 1

\* progress(fraction, status_code): one more call received by the sink.
Progress(log, num, status) == Append(log, <<num, status>>)

\* if (!seed) { std::random_device rd; seed = rd(); }
SeedOrEntropy(sd) == IF sd = "zero" THEN "entropy" ELSE sd
\* std::default_random_engine generator(seed + ith): the seed as it is.
WorkerSeed(sd) == sd
NoGenerator == [pmatrix |-> "unused", workers |-> "unused", sampler |-> "unused"]

\* oem.capture_exception(): the first exception captured is the one kept.
CaptureException(held, kind) == IF held = "none" THEN kind ELSE held

\* ------------------------------------------------------------------ inputs
\* A non-numeric column of a table of CatLimit columns is dropped whatever its
\* type: one kind stands for all of them there.
Layouts ==
  UNION {[1..n -> Kinds] : n \in 1..(CatLimit - 1)}
    \cup [1..CatLimit -> {"num", "str"}]

\* The columns whose cells the run reads.
ReadCols(st, n, mr) ==
  LET cont == ContCols(st)
      cat == CatCols(st)
      nc == Len(cont) + Len(cat)
  IN IF n < mr \/ nc = 0 THEN {1}
     ELSE IF nc = 1 THEN {cont[j] : j \in 1..Len(cont)} \cup {cat[j] : j \in 1..Len(cat)}
     ELSE IF nc = 2 /\ \A j \in 1..Len(cat) : st[cat[j]] = "str"
          THEN {cont[j] : j \in 1..Len(cont)} \cup {cat[j] : j \in 1..Len(cat)}
     ELSE {}

\* The tables of the binning paths: at least one row (the group-by primitive
\* on an empty table is outside the aggregator), cells that the run never
\* reads fixed to 0, and every parameter the path never reads fixed to 1.
InitLowD ==
  \E n \in 1..MaxRows, st \in Layouts :
  \E mr \in {n, n + 1} :
    LET nc == Len(ContCols(st)) + Len(CatCols(st))
        zero == n < mr \/ nc = 0
        rc == ReadCols(st, n, mr)
    IN /\ zero \/ nc <= 2
       /\ (~zero /\ nc = 2) => n <= MaxRows2D
       /\ nrows = n
       /\ stypes = st
       /\ min_rows = mr
       /\ \E d \in [rc -> [0..(n - 1) -> Val]] :
            cells = [c \in 1..Len(st) |->
                       IF c \in rc THEN d[c] ELSE [r \in 0..(n - 1) |-> 0]]
       /\ n_bins \in (IF ~zero /\ nc = 1 THEN BinCounts ELSE {1})
       /\ nx_bins \in (IF ~zero /\ nc = 2 THEN BinCounts ELSE {1})
       /\ ny_bins \in (IF ~zero /\ nc = 2 THEN BinCounts ELSE {1})
       /\ nd_max_bins \in (IF n >= mr /\ nc = 0 THEN {1, MaxNdBins} ELSE {1})
       /\ coords = [r \in 0..(n - 1) |-> 0]
       /\ nth = 1

\* No call of calculate_distance on its own is under way.
NoDistanceCall ==
  /\ d_ndims = 0
  /\ d_e1 = <<>>
  /\ d_e2 = <<>>
  /\ d_delta = 0
  /\ distance = <<>>

\* No ParallelReader exists.
NoReader ==
  /\ input_end = 0
  /\ line_starts = {}
  /\ approximate_line_length = 1
  /\ nthreads = 0
  /\ chunk_size = 0
  /\ chunk_count = 0
  /\ end_of_last_chunk = 0
  /\ nrows_written = 0
  /\ nrows_allocated = 0
  /\ nrows_max = 0
  /\ columns_nrows = 0
  /\ rpc = "none"
  /\ roem = [exc |-> FALSE, stop |-> FALSE]
  /\ next_chunk = 0
  /\ ordered_done = {}
  /\ tpc = <<>>
  /\ ti = <<>>
  /\ txcc = <<>>
  /\ tacc = <<>>
  /\ used_nrows = <<>>
  /\ row0 = <<>>
  /\ committed = <<>>
  /\ pushed = {}

\* The state on entry to aggregate(): dt_members is allocated, not written.
InitRun ==
  /\ pc = "start"
  /\ path = "none"
  /\ members = [r \in Rows |-> 0]
  /\ max_bins = 0
  /\ n_na_bins = 0
  /\ gb_members = <<>>
  /\ k = 0
  /\ was_sampled = FALSE
  /\ exemplar_indices = <<>>
  /\ members_count = <<>>
  /\ dt_exemplars_in = <<>>
  /\ dt_members_in = <<>>
  /\ exemplars = <<>>
  /\ ids = <<>>
  /\ coprimes = <<>>
  /\ delta = [nan |-> FALSE, num |-> 0, den |-> 1]
  /\ ecounter = 0
  /\ wpc = <<>>
  /\ wrow = <<>>
  /\ ecounter_local = <<>>
  /\ oem = "none"
  /\ progress_log = <<>>
  /\ gen_seed = NoGenerator
  /\ ncall = 1

\* The tables of the N-D path: CatLimit numeric columns, each row given by
\* the coordinate group_nd computes for it.
InitND ==
  \E n \in 1..MaxRows :
    /\ nrows = n
    /\ stypes = [c \in 1..CatLimit |-> "num"]
    /\ min_rows = n
    /\ cells = [c \in 1..CatLimit |-> [r \in 0..(n - 1) |-> 0]]
    /\ n_bins = 1
    /\ nx_bins = 1
    /\ ny_bins = 1
    /\ nd_max_bins \in {1, MaxNdBins}
    /\ coords \in [0..(n - 1) -> {NAcell} \cup CoordGrid]
    /\ nth \in {1, MaxThreads}

\* The data paths do not depend on the seed: what the generators draw is a
\* free choice of the model. The seed parameter is 0 here.
Init == (InitLowD \/ InitND) /\ InitRun /\ seed = "zero" /\ NoDistanceCall /\ NoReader

\* ----------------------------------------------------------------- actions
sampler == <<gb_members, k, was_sampled>>
outputs == <<exemplar_indices, members_count, dt_exemplars_in, dt_members_in>>

\* aggregate(), the 0-D path: too few rows, or no column kept.
Group0d ==
  /\ pc = "start"
  /\ nrows < min_rows \/ ncols = 0
  /\ path' = "0d"
  /\ members' = IF Len(stypes) > 0 THEN [j \in Rows |-> members_0d(j)] ELSE members
  /\ IF nrows >= min_rows
     THEN /\ max_bins' = MaxBinsOf(ncols)
          /\ n_na_bins' = NNaBinsOf(ncols)
          /\ pc' = "sample"
     ELSE /\ UNCHANGED <<max_bins, n_na_bins>>
          /\ pc' = "finalize"
  /\ UNCHANGED <<inputs, sampler, outputs, ndstate>>
  /\ progress_log' = Progress(progress_log, 0, 0)
  /\ UNCHANGED <<oem, rng>>
  /\ UNCHANGED <<distvars, readervars>>

\* aggregate(), the 1-D path: group_1d().
Group1d ==
  /\ pc = "start"
  /\ nrows >= min_rows /\ ncols = 1
  /\ IF Len(contconvs) > 0
     THEN /\ path' = "1d_continuous"
          /\ members' = [i \in Rows |-> members_1d_continuous(i)]
     ELSE /\ path' = "1d_categorical"
          /\ members' = [i \in Rows |-> members_1d_categorical(i)]
  /\ max_bins' = MaxBinsOf(ncols)
  /\ n_na_bins' = NNaBinsOf(ncols)
  /\ pc' = "sample"
  /\ UNCHANGED <<inputs, sampler, outputs, ndstate>>
  /\ progress_log' = Progress(progress_log, 0, 0)
  /\ UNCHANGED <<oem, rng>>
  /\ UNCHANGED <<distvars, readervars>>

\* aggregate(), the 2-D path: group_2d().
Group2d ==
  /\ pc = "start"
  /\ nrows >= min_rows /\ ncols = 2
  /\ ~SchemaError
  /\ CASE Len(contconvs) = 0 ->
            /\ path' = "2d_categorical"
            /\ members' = [i \in Rows |-> members_2d_categorical(i)]
       [] Len(contconvs) = 1 ->
            /\ path' = "2d_mixed"
            /\ members' = [i \in Rows |-> members_2d_mixed(i)]
       [] OTHER ->
            /\ path' = "2d_continuous"
            /\ members' = [i \in Rows |-> members_2d_continuous(i)]
  /\ max_bins' = MaxBinsOf(ncols)
  /\ n_na_bins' = NNaBinsOf(ncols)
  /\ pc' = "sample"
  /\ UNCHANGED <<inputs, sampler, outputs, ndstate>>
  /\ progress_log' = Progress(progress_log, 0, 0)
  /\ UNCHANGED <<oem, rng>>
  /\ UNCHANGED <<distvars, readervars>>

\* aggregate(), the 2-D path when group_2d_categorical / group_2d_mixed throws:
\* the exception leaves aggregate() before anything is moved to the caller.
Group2dError ==
  /\ pc = "start"
  /\ nrows >= min_rows /\ ncols = 2
  /\ SchemaError
  /\ path' = "2d_error"
  /\ pc' = "error"
  /\ UNCHANGED <<inputs, members, max_bins, n_na_bins, sampler, outputs, ndstate>>
  /\ progress_log' = Progress(progress_log, 0, 0)
  /\ UNCHANGED <<oem, rng>>
  /\ UNCHANGED <<distvars, readervars>>

\* sample_exemplars(): the grouping of dt_members and the decision.
SampleStart ==
  /\ pc = "sample"
  /\ gb_members' = members
  /\ IF SampleNeeded(ngroups(members), max_bins, n_na_bins)
     THEN /\ members' = [i \in Rows |-> NA_I4]
          /\ seed' = SeedOrEntropy(seed)
          /\ gen_seed' = [gen_seed EXCEPT !.sampler = seed']
          /\ k' = 0
          /\ pc' = "sampling"
          /\ UNCHANGED was_sampled
     ELSE /\ pc' = "finalize"
          /\ UNCHANGED <<members, k, was_sampled, seed, gen_seed>>
  /\ UNCHANGED <<inputs, path, max_bins, n_na_bins, outputs, ndstate>>
  /\ UNCHANGED <<oem, progress_log, ncall>>
  /\ UNCHANGED <<distvars, readervars>>

\* sample_exemplars(): one iteration of the selection loop, i = rand() % ngroups.
SamplePick ==
  /\ pc = "sampling"
  /\ SelectMore(k, max_bins)
  /\ \E i \in 0..(ngroups(gb_members) - 1) :
       IF Unselected(members, gb_members, i)
       THEN /\ members' = SelectGroup(members, gb_members, i, k)
            /\ k' = k + 1
       ELSE UNCHANGED <<members, k>>
  /\ UNCHANGED <<inputs, pc, path, max_bins, n_na_bins, gb_members, was_sampled, outputs,
               ndstate>>
  /\ UNCHANGED <<oem, progress_log, rng>>
  /\ UNCHANGED <<distvars, readervars>>

\* sample_exemplars(): the loop has ended, was_sampled = true is returned.
SampleEnd ==
  /\ pc = "sampling"
  /\ ~SelectMore(k, max_bins)
  /\ was_sampled' = TRUE
  /\ pc' = "finalize"
  /\ UNCHANGED <<inputs, path, members, max_bins, n_na_bins, gb_members, k, outputs,
               ndstate>>
  /\ UNCHANGED <<oem, progress_log, rng>>
  /\ UNCHANGED <<distvars, readervars>>

\* aggregate_exemplars(was_sampled) and the hand-over to the caller.
AggregateExemplars ==
  /\ pc = "finalize"
  /\ LET ng == ngroups(members)
         nex == n_exemplars(ng, was_sampled)
         ws == B2I(was_sampled)
     IN /\ exemplar_indices' =
             [e \in 0..(nex - 1) |-> ExemplarIndex(members, e + ws)]
        /\ members_count' = [e \in 0..(nex - 1) |-> Count(members, e + ws)]
        /\ members' = FinalMembers(members, was_sampled)
  /\ dt_exemplars_in' = <<exemplar_indices', members_count'>>
  /\ dt_members_in' = <<members'>>
  /\ pc' = "done"
  /\ UNCHANGED <<inputs, path, max_bins, n_na_bins, sampler, ndstate>>
  /\ progress_log' = Progress(progress_log, nrows, 1)
  /\ UNCHANGED <<oem, rng>>
  /\ UNCHANGED <<distvars, readervars>>

\* group_nd(): the state before the parallel region.
GroupNdStart ==
  /\ pc = "start"
  /\ nrows >= min_rows /\ ncols > 2
  /\ path' = "nd"
  /\ pc' = "nd"
  /\ exemplars' = <<>>
  /\ ids' = <<>>
  /\ coprimes' = <<>>
  /\ delta' = DeltaEpsilon
  /\ ecounter' = 0
  /\ wpc' = [w \in 0..(nth - 1) |-> IF w < nrows THEN "test_member" ELSE "done"]
  /\ wrow' = [w \in 0..(nth - 1) |-> w]
  /\ ecounter_local' = [w \in 0..(nth - 1) |-> 0]
  /\ UNCHANGED <<inputs, members, max_bins, n_na_bins, sampler, outputs>>
  /\ progress_log' = Progress(progress_log, 0, 0)
  /\ seed' = SeedOrEntropy(seed)
  /\ gen_seed' = [gen_seed EXCEPT !.pmatrix = seed', !.workers = WorkerSeed(seed')]
  /\ UNCHANGED <<oem, ncall>>
  /\ UNCHANGED <<distvars, readervars>>

\* Variant: a thread goes on to the row that follows.
RowAfter_next(i) == i + 1
\* i += nth
RowAfter(i) == i + nth

\* for (i = ith; i < nrows; i += nth): thread w goes on to its next row.
\* Before that the master thread reports progress((i + 1) / nrows).
NextRow(w) ==
  /\ IF RowAfter(wrow[w]) < nrows
     THEN /\ wrow' = [wrow EXCEPT ![w] = RowAfter(wrow[w])]
          /\ wpc' = [wpc EXCEPT ![w] = "test_member"]
     ELSE /\ wpc' = [wpc EXCEPT ![w] = "done"]
          /\ UNCHANGED wrow
  /\ IF w = 0 /\ (wrow[w] \div nth) % rstep = 0
     THEN progress_log' = Progress(progress_log, wrow[w] + 1, 0)
     ELSE UNCHANGED progress_log

\* group_nd(), thread w: the block test_member, under the shared lock.
NdTestMember(w) ==
  /\ pc = "nd"
  /\ wpc[w] = "test_member"
  /\ ecounter_local' = [ecounter_local EXCEPT ![w] = ecounter]
  /\ \E exemplar_index \in 0..(IF exemplars = <<>> THEN 0 ELSE Len(exemplars) - 1),
        coprime_index \in 0..(IF coprimes = <<>> THEN 0 ELSE Len(coprimes) - 1) :
       LET hit == IF exemplars = <<>> THEN -1
                  ELSE TestMember(coords[wrow[w]], exemplar_index, coprime_index)
       IN IF hit # -1
          THEN /\ members' = [members EXCEPT ![wrow[w]] = hit]
               /\ NextRow(w)
          ELSE /\ wpc' = [wpc EXCEPT ![w] = "is_exemplar"]
               /\ UNCHANGED <<members, wrow, progress_log>>
  /\ UNCHANGED <<inputs, pc, path, max_bins, n_na_bins, sampler, outputs,
                 exemplars, ids, coprimes, delta, ecounter>>
  /\ UNCHANGED <<oem, rng>>
  /\ UNCHANGED <<distvars, readervars>>

\* group_nd(), thread w: the block `if (is_exemplar)`, under the exclusive lock.
NdIsExemplar(w) ==
  /\ pc = "nd"
  /\ wpc[w] = "is_exemplar"
  /\ IF SnapshotValid(ecounter_local[w], ecounter)
     THEN LET e == [id |-> NewExemplarId(ids), row |-> wrow[w]]
              ids1 == Append(ids, e.id)
              ex1 == PushExemplar(exemplars, e)
              adj == adjust_delta(delta, ex1, ids1)
              over == Len(ex1) > nd_max_bins
          IN /\ ecounter' = ecounter + 1
             /\ members' = [members EXCEPT ![wrow[w]] = e.id]
             /\ exemplars' = IF over THEN adj.exemplars ELSE ex1
             /\ ids' = IF over THEN adj.ids ELSE ids1
             /\ delta' = IF over THEN adj.delta ELSE delta
             /\ coprimes' = Coprimes(Len(exemplars'))
             /\ NextRow(w)
     ELSE /\ wpc' = [wpc EXCEPT ![w] = "test_member"]
          /\ UNCHANGED <<members, exemplars, ids, delta, coprimes, ecounter, wrow,
                         progress_log>>
  /\ UNCHANGED <<inputs, pc, path, max_bins, n_na_bins, sampler, outputs,
                 ecounter_local>>
  /\ UNCHANGED <<oem, rng>>
  /\ UNCHANGED <<distvars, readervars>>

\* group_nd() after the parallel region: adjust_members(ids); then aggregate()
\* sets max_bins.
AdjustMembers ==
  /\ pc = "nd"
  /\ \A w \in 0..(nth - 1) : wpc[w] \in {"done", "failed"}
  /\ oem = "none"
  /\ members' = [i \in Rows |-> calculate_map(ids, members[i])]
  /\ max_bins' = MaxBinsOf(ncols)
  /\ n_na_bins' = NNaBinsOf(ncols)
  /\ pc' = "sample"
  /\ UNCHANGED <<inputs, path, sampler, outputs, ndstate>>
  /\ UNCHANGED <<oem, progress_log, rng>>
  /\ UNCHANGED <<distvars, readervars>>

Next ==
  \/ Group0d
  \/ Group1d
  \/ Group2d
  \/ Group2dError
  \/ GroupNdStart
  \/ \E w \in 0..(nth - 1) : NdTestMember(w)
  \/ \E w \in 0..(nth - 1) : NdIsExemplar(w)
  \/ AdjustMembers
  \/ SampleStart
  \/ SamplePick
  \/ SampleEnd
  \/ AggregateExemplars

Spec == Init /\ [][Next]_vars

\* ------------------------------------------------- runs with failing threads
\* group_nd(), thread w: something inside the try block throws (the row
\* conversion, an allocation, or the progress function called by the master
\* thread, which is where a host interrupt arrives); catch (...) hands the
\* exception to the exception manager and the thread leaves its loop.
NdThrow(w) ==
  /\ pc = "nd"
  /\ wpc[w] \in {"test_member", "is_exemplar"}
  /\ \E kind \in (IF w = 0 THEN {"error", "interrupt"} ELSE {"error"}) :
       oem' = CaptureException(oem, kind)
  /\ wpc' = [wpc EXCEPT ![w] = "failed"]
  /\ UNCHANGED <<inputs, pc, path, members, max_bins, n_na_bins, sampler, outputs,
                 exemplars, ids, coprimes, delta, ecounter, wrow, ecounter_local,
                 progress_log, rng>>
  /\ UNCHANGED <<distvars, readervars>>

\* Variant: the members table is handed to the caller before the rethrow.
NdRethrow_handover ==
  /\ pc = "nd"
  /\ \A w \in 0..(nth - 1) : wpc[w] \in {"done", "failed"}
  /\ oem # "none"
  /\ pc' = "error"
  /\ dt_members_in' = <<members>>
  /\ UNCHANGED <<inputs, path, members, max_bins, n_na_bins, sampler,
                 exemplar_indices, members_count, dt_exemplars_in,
                 ndstate, oem, progress_log, rng>>
  /\ UNCHANGED <<distvars, readervars>>
\* group_nd() after the parallel region: oem.rethrow_exception_if_any() throws,
\* and the exception leaves aggregate().
NdRethrow ==
  /\ pc = "nd"
  /\ \A w \in 0..(nth - 1) : wpc[w] \in {"done", "failed"}
  /\ oem # "none"
  /\ pc' = "error"
  /\ UNCHANGED <<inputs, path, members, max_bins, n_na_bins, sampler, outputs,
                 ndstate, oem, progress_log, rng>>
  /\ UNCHANGED <<distvars, readervars>>

\* The tables of the N-D path for the runs in which a thread may throw.
InitNDFault ==
  \E n \in 1..MaxRows :
    /\ nrows = n
    /\ stypes = [c \in 1..CatLimit |-> "num"]
    /\ min_rows = n
    /\ cells = [c \in 1..CatLimit |-> [r \in 0..(n - 1) |-> 0]]
    /\ n_bins = 1
    /\ nx_bins = 1
    /\ ny_bins = 1
    /\ nd_max_bins = MaxNdBins
    /\ coords \in [0..(n - 1) -> {0, MaxCoord * MaxCoord}]
    /\ nth \in {1, MaxThreads}

InitFault == (InitLowD \/ InitNDFault) /\ InitRun /\ seed = "zero" /\ NoDistanceCall /\ NoReader

NextFault ==
  \/ Next
  \/ \E w \in 0..(nth - 1) : NdThrow(w)
  \/ NdRethrow

FaultSpec == InitFault /\ [][NextFault]_vars

\* ------------------------------------------- the seed over several calls
\* The calls of aggregate() on one Aggregator, reduced to what touches the
\* member `seed`: the table is left out, and what it decides (the path, whether
\* group_nd projects, whether the sampler samples) is an input of each call.
tablestate == <<nrows, stypes, cells, min_rows, n_bins, nx_bins, ny_bins, nd_max_bins,
                coords, nth, members, max_bins, n_na_bins, sampler, outputs, ndstate>>

InitSeed ==
  /\ nrows = 1
  /\ stypes = <<"num">>
  /\ min_rows = 1
  /\ cells = <<[r \in {0} |-> 0]>>
  /\ n_bins = 1
  /\ nx_bins = 1
  /\ ny_bins = 1
  /\ nd_max_bins = 1
  /\ coords = [r \in {0} |-> 0]
  /\ nth = 1
  /\ InitRun
  /\ seed \in {"zero", "user"}
  /\ NoDistanceCall /\ NoReader

\* aggregate() up to the call of sample_exemplars: group_nd seeds the
\* generator of the projection matrix (generate_pmatrix, when it projects) and
\* those of the threads; the other grouping methods use no generator.
SeedGroup ==
  /\ pc = "start"
  /\ \E p \in {"0d", "1d", "2d", "nd"}, do_projection \in BOOLEAN :
       /\ path' = p
       /\ IF p = "nd"
          THEN /\ seed' = IF do_projection THEN SeedOrEntropy(seed) ELSE seed
               /\ gen_seed' = [NoGenerator EXCEPT
                                 !.pmatrix = IF do_projection THEN seed' ELSE "unused",
                                 !.workers = WorkerSeed(seed')]
          ELSE /\ do_projection = FALSE
               /\ gen_seed' = NoGenerator
               /\ UNCHANGED seed
  /\ pc' = "sample"
  /\ UNCHANGED <<tablestate, oem, progress_log, ncall>>
  /\ UNCHANGED <<distvars, readervars>>

\* sample_exemplars(): when it samples, it seeds srand.
SeedSample ==
  /\ pc = "sample"
  /\ \E sampling \in BOOLEAN :
       IF sampling
       THEN /\ seed' = SeedOrEntropy(seed)
            /\ gen_seed' = [gen_seed EXCEPT !.sampler = seed']
       ELSE UNCHANGED <<seed, gen_seed>>
  /\ pc' = "done"
  /\ UNCHANGED <<tablestate, path, oem, progress_log, ncall>>
  /\ UNCHANGED <<distvars, readervars>>

\* The next call of aggregate() on the same Aggregator: `seed` is as the
\* previous call left it.
SeedNextCall ==
  /\ pc = "done"
  /\ ncall < MaxCalls
  /\ ncall' = ncall + 1
  /\ pc' = "start"
  /\ path' = "none"
  /\ UNCHANGED <<tablestate, oem, progress_log, seed, gen_seed>>
  /\ UNCHANGED <<distvars, readervars>>

NextSeed == SeedGroup \/ SeedSample \/ SeedNextCall

SeedSpec == InitSeed /\ [][NextSeed]_vars

\* ------------------------------------------------------ the N-D path alone
\* Coordinates spaced so that four rows can make adjust_delta merge twice into
\* one exemplar, merge an exemplar that has absorbed another one, or meet a
\* pair within the merge radius one of which is already merged.
MergeGrid == {0, 3, 4, 6, 15}

\* The tables of the N-D path with up to MaxRowsNd rows on the merge grid, no
\* two rows at the same place, grouped by one thread (adjust_delta runs under
\* the exclusive lock; the interleavings of threads are those of InitND).
InitNDMerge ==
  \E n \in 1..MaxRowsNd :
    /\ nrows = n
    /\ stypes = [c \in 1..CatLimit |-> "num"]
    /\ min_rows = n
    /\ cells = [c \in 1..CatLimit |-> [r \in 0..(n - 1) |-> 0]]
    /\ n_bins = 1
    /\ nx_bins = 1
    /\ ny_bins = 1
    /\ nd_max_bins \in {1, MaxNdBins}
    /\ coords \in {f \in [0..(n - 1) -> MergeGrid] :
                      \A i, j \in 0..(n - 1) : f[i] = f[j] => i = j}
    /\ nth = 1

InitNd == (InitND \/ InitNDMerge) /\ InitRun /\ seed = "zero" /\ NoDistanceCall /\ NoReader

\* aggregate() on a table that takes the N-D path.
NextNd ==
  \/ GroupNdStart
  \/ \E w \in 0..(nth - 1) : NdTestMember(w)
  \/ \E w \in 0..(nth - 1) : NdIsExemplar(w)
  \/ AdjustMembers
  \/ SampleStart
  \/ SamplePick
  \/ SampleEnd
  \/ AggregateExemplars

NdSpec == InitNd /\ [][NextNd]_vars

\* The N-D path with fair locks: a thread that waits for the shared lock of
\* test_member or for the exclusive lock of the is_exemplar block gets it in
\* the end.
NdFairness ==
  \A w \in 0..(MaxThreads - 1) :
    /\ WF_vars(w < nth /\ NdTestMember(w))
    /\ WF_vars(w < nth /\ NdIsExemplar(w))

\* The tables of the runs with fair locks: every row at one of two
\* coordinates, far from each other.
InitNDLive ==
  \E n \in 1..MaxRows :
    /\ nrows = n
    /\ stypes = [c \in 1..CatLimit |-> "num"]
    /\ min_rows = n
    /\ cells = [c \in 1..CatLimit |-> [r \in 0..(n - 1) |-> 0]]
    /\ n_bins = 1
    /\ nx_bins = 1
    /\ ny_bins = 1
    /\ nd_max_bins \in {1, MaxNdBins}
    /\ coords \in [0..(n - 1) -> {0, MaxCoord * MaxCoord}]
    /\ nth \in {1, MaxThreads}

InitLive == InitNDLive /\ InitRun /\ seed = "zero" /\ NoDistanceCall /\ NoReader

NdLiveSpec == InitLive /\ [][NextNd]_vars /\ NdFairness

\* ------------------------------------- the 2-D paths with a continuous column
\* The tables that take the 2-D continuous or the 2-D mixed path.
Init2d ==
  /\ InitLowD
  /\ InitRun
  /\ seed = "zero"
  /\ NoDistanceCall /\ NoReader
  /\ nrows >= min_rows
  /\ ncols = 2
  /\ Len(contconvs) >= 1
  /\ ~SchemaError

\* aggregate() on such a table.
Next2d ==
  \/ Group2d
  \/ SampleStart
  \/ AggregateExemplars

Bin2dSpec == Init2d /\ [][Next2d]_vars

\* --------------------------------------------- calculate_distance on its own
\* No aggregate() call is under way.
NoAggregate ==
  /\ nrows = 0
  /\ stypes = <<>>
  /\ cells = <<>>
  /\ min_rows = 0
  /\ n_bins = 0
  /\ nx_bins = 0
  /\ ny_bins = 0
  /\ nd_max_bins = 0
  /\ coords = <<>>
  /\ nth = 0
  /\ InitRun
  /\ seed = "zero"

aggvars == <<inputs, pc, path, members, max_bins, n_na_bins, sampler, outputs,
             ndstate, oem, progress_log, rng>>

\* The value of `distance` before the call.
NotCalled == [nan |-> TRUE, num |-> 0, den |-> 0]

\* The arguments of the two calls.
InitDistance ==
  /\ NoAggregate
  /\ d_ndims \in 1..MaxDims
  /\ d_e1 \in [1..d_ndims -> {NAcell} \cup 0..MaxCoord]
  /\ d_e2 \in [1..d_ndims -> {NAcell} \cup 0..MaxCoord]
  /\ d_delta \in 1..MaxDelta2
  /\ distance = [early_exit \in BOOLEAN |-> NotCalled]
  /\ NoReader

\* distance = calculate_distance(e1, e2, ndims, delta, early_exit)
CallDistance(early_exit) ==
  /\ distance[early_exit] = NotCalled
  /\ distance' = [distance EXCEPT ![early_exit] =
                    calculate_distance_n(d_e1, d_e2, d_ndims, d_delta, early_exit)]
  /\ UNCHANGED <<aggvars, d_ndims, d_e1, d_e2, d_delta, readervars>>

NextDistance == \E early_exit \in BOOLEAN : CallDistance(early_exit)

DistSpec == InitDistance /\ [][NextDistance]_vars

\* ------------------------------------------------------------ ParallelReader
\* input_start = g.sof: offsets are counted from it.
input_start == 0
\* Lines start at multiples of LineUnit.
LineUnit == 32768
\* g.nthreads
ThreadCounts == {1, 2}
\* g.max_nrows when the caller sets no limit: any value of at least 1000000
\* passes the test nrows_max < 1000000 of determine_chunking_strategy alike.
Unlimited == 1000000
\* acc.get_end() == nullptr: the chunk failed with a recoverable error.
nullptr == -1

Max2(a, b) == IF a >= b THEN a ELSE b

\* determine_chunking_strategy() for nthreads = nt: the new chunk_size,
\* chunk_count and nthreads.
determine_chunking_strategy(nt) ==
  LET input_size0 == input_end - input_start
      input_size_reduced ==
        nrows_max < 1000000 /\ nrows_max * approximate_line_length < input_size0
      input_size ==
        IF input_size_reduced
        THEN (3 * nrows_max * approximate_line_length) \div 2 + 1
        ELSE input_size0
      size0 == Max2(Min2(Max2(1000 * approximate_line_length, 65536), 1048576),
                    10 * approximate_line_length)
      count0 == Max2(input_size \div size0, 1)
      count1 == nt * (1 + (count0 - 1) \div nt)
  IN IF count0 > nt
     THEN [chunk_size |-> input_size \div count1, chunk_count |-> count1,
           nthreads |-> nt]
     ELSE [chunk_size |-> input_size \div count0,
           chunk_count |-> IF input_size_reduced THEN count0 + 2 ELSE count0,
           nthreads |-> count0]

\* The ends of the lines: the starts of the lines and the end of the input.
Boundaries == line_starts \cup {input_end}
\* The first line boundary at or after offset p.
NextBoundary(p) == SetMin({b \in Boundaries : b >= p})
\* The number of lines that start in [a, b).
RowsIn(a, b) == Cardinality({p \in line_starts : a <= p /\ p < b})

\* Variant: the end of the last chunk is approximate like that of the others.
ChunkCoordinates_nolast(i) ==
  LET exact == nthreads = 1 \/ i = 0
      start == IF exact THEN end_of_last_chunk ELSE input_start + i * chunk_size
      ch == start + chunk_size
      last == ch >= input_end
  IN [start |-> start, start_exact |-> exact,
      end |-> IF last THEN input_end ELSE ch, end_exact |-> last]
\* compute_chunk_boundaries(i, ctx) before adjust_chunk_coordinates.
ChunkCoordinates(i) ==
  LET exact == nthreads = 1 \/ i = 0
      start == IF exact THEN end_of_last_chunk ELSE input_start + i * chunk_size
      ch == start + chunk_size
      last == i = chunk_count - 1 \/ ch >= input_end
  IN [start |-> start, start_exact |-> exact,
      end |-> IF last THEN input_end ELSE ch, end_exact |-> last]

\* adjust_chunk_coordinates(c, ctx): an approximate start is moved to what the
\* parser takes for the next start of a line, which is the next line start or,
\* when the guess goes wrong, an offset inside a line (the start as given).
AdjustedCoordinates(c) ==
  IF c.start_exact THEN {c}
  ELSE {[c EXCEPT !.start = p] : p \in {c.start, NextBoundary(c.start)}}

\* compute_chunk_boundaries(i, ctx): the coordinates it may return.
compute_chunk_boundaries(i) == AdjustedCoordinates(ChunkCoordinates(i))

\* read_chunk(xcc, acc) when it returns: the actual coordinates and the rows
\* parsed. From a line start the parser reads the lines that start before
\* xcc.end. From an offset inside a line it fails with a recoverable error
\* (end = nullptr) or takes the rest of the line for a row.
read_chunk(xcc) ==
  LET stop_at == NextBoundary(Max2(xcc.end, xcc.start))
  IN IF xcc.start \in Boundaries
     THEN {[start |-> xcc.start, end |-> stop_at,
            used_nrows |-> RowsIn(xcc.start, stop_at)]}
     ELSE {[start |-> xcc.start, end |-> nullptr, used_nrows |-> 0],
           [start |-> xcc.start, end |-> stop_at,
            used_nrows |-> 1 + RowsIn(xcc.start, stop_at)]}

\* oem.capture_exception()
Captured == [exc |-> TRUE, stop |-> TRUE]
\* oem.stop_iterations()
StopIterations(o) == [o EXCEPT !.stop = TRUE]

\* Variant: order_chunk does not compare the start of the chunk.
ChunkInPlace_anystart(acc) == acc.end >= end_of_last_chunk
\* acc.get_start() == end_of_last_chunk && acc.get_end() >= end_of_last_chunk
ChunkInPlace(acc) == acc.start = end_of_last_chunk /\ acc.end >= end_of_last_chunk

\* realloc_output_columns(ichunk, new_nrows): the new nrows_allocated.
realloc_output_columns(ichunk, new_nrows) ==
  IF new_nrows = nrows_allocated THEN nrows_allocated
  ELSE LET expected == (12 * new_nrows * chunk_count) \div (10 * (ichunk + 1))
           wanted == IF ichunk = chunk_count - 1 THEN new_nrows
                     ELSE Max2(expected, 1024 + nrows_allocated)
       IN Min2(wanted, nrows_max)

\* Variant: the ordered section never finds the limit exceeded.
OverLimit_never(nrows_new) == FALSE
\* nrows_new > nrows_max
OverLimit(nrows_new) == nrows_new > nrows_max

Threads == 0..(nthreads - 1)

\* The inputs of a reader: an input of up to MaxInput line units, g.nthreads,
\* g.max_nrows, the rows g.columns has on entry and the mean line length.
InitReader ==
  /\ \E u \in {0, 1, MaxInput - 2, MaxInput} :
       /\ input_end = u * LineUnit
       /\ line_starts \in {L \in SUBSET {v * LineUnit : v \in 0..(u - 1)} :
                             u > 0 => 0 \in L}
  /\ approximate_line_length \in {1, LineUnit}
  /\ nrows_max \in {0, MaxNrowsMax, Unlimited}
  /\ nrows_allocated \in {a \in {0, 1} : a <= nrows_max}
  /\ columns_nrows = nrows_allocated
  /\ end_of_last_chunk = input_start
  /\ nrows_written = 0
  /\ \E nt \in ThreadCounts :
       /\ nthreads = determine_chunking_strategy(nt).nthreads
       /\ chunk_size = determine_chunking_strategy(nt).chunk_size
       /\ chunk_count = determine_chunking_strategy(nt).chunk_count
  /\ rpc = "start"
  /\ roem = [exc |-> FALSE, stop |-> FALSE]
  /\ next_chunk = 0
  /\ ordered_done = {}
  /\ tpc = <<>>
  /\ ti = <<>>
  /\ txcc = <<>>
  /\ tacc = <<>>
  /\ used_nrows = <<>>
  /\ row0 = <<>>
  /\ committed = <<>>
  /\ pushed = {}

\* read_all(): the parallel region starts with the threads OpenMP grants; the
\* master thread redoes the chunking when they are fewer, and the barrier
\* releases the threads into the loop.
ReaderStart ==
  /\ rpc = "start"
  /\ \E actual_nthreads \in 1..nthreads :
       LET s == IF actual_nthreads # nthreads
                THEN determine_chunking_strategy(actual_nthreads)
                ELSE [chunk_size |-> chunk_size, chunk_count |-> chunk_count,
                      nthreads |-> nthreads]
       IN /\ nthreads' = s.nthreads
          /\ chunk_size' = s.chunk_size
          /\ chunk_count' = s.chunk_count
          /\ tpc' = [t \in 0..(actual_nthreads - 1) |-> "loop"]
          /\ ti' = [t \in 0..(actual_nthreads - 1) |-> 0]
          /\ txcc' = [t \in 0..(actual_nthreads - 1) |->
                       [start |-> 0, start_exact |-> FALSE,
                        end |-> 0, end_exact |-> FALSE]]
          /\ tacc' = [t \in 0..(actual_nthreads - 1) |->
                       [start |-> 0, end |-> 0]]
          /\ used_nrows' = [t \in 0..(actual_nthreads - 1) |-> 0]
          /\ row0' = [t \in 0..(actual_nthreads - 1) |-> 0]
  /\ rpc' = "parallel"
  /\ UNCHANGED <<readerinput, end_of_last_chunk, nrows_written, nrows_allocated,
                 columns_nrows, roem, next_chunk, ordered_done, committed, pushed>>
  /\ UNCHANGED <<aggvars, distvars>>

\* Thread t asks the dynamic schedule for an iteration. With a stop requested
\* the iteration is skipped (continue); without iterations left the thread
\* waits at the barrier that ends the loop.
TakeChunk(t) ==
  /\ rpc = "parallel"
  /\ tpc[t] = "loop"
  /\ IF next_chunk < chunk_count
     THEN /\ next_chunk' = next_chunk + 1
          /\ IF roem.stop
             THEN /\ ordered_done' = ordered_done \cup {next_chunk}
                  /\ UNCHANGED <<tpc, ti>>
             ELSE /\ ti' = [ti EXCEPT ![t] = next_chunk]
                  /\ tpc' = [tpc EXCEPT ![t] = "read"]
                  /\ UNCHANGED ordered_done
     ELSE /\ tpc' = [tpc EXCEPT ![t] = "barrier"]
          /\ UNCHANGED <<next_chunk, ordered_done, ti>>
  /\ UNCHANGED <<readerinput, chunking, end_of_last_chunk, nrows_written,
                 nrows_allocated, columns_nrows, rpc, roem, txcc, tacc,
                 used_nrows, row0, committed, pushed>>
  /\ UNCHANGED <<aggvars, distvars>>

\* push_buffers(): the rows of the buffer go to the output.
PushBuffers(t) ==
  IF used_nrows[t] > 0
  THEN pushed \cup {[row0 |-> row0[t], used_nrows |-> used_nrows[t]]}
  ELSE pushed

\* Thread t, the try block of the loop body: push_buffers, then
\* compute_chunk_boundaries and read_chunk. push_buffers or read_chunk may
\* throw; catch (...) captures the exception.
ReadChunk(t) ==
  /\ rpc = "parallel"
  /\ tpc[t] = "read"
  /\ \/ /\ roem' = Captured
        /\ UNCHANGED <<txcc, tacc, used_nrows, pushed>>
     \/ /\ pushed' = PushBuffers(t)
        /\ \E xcc \in compute_chunk_boundaries(ti[t]) :
             /\ txcc' = [txcc EXCEPT ![t] = xcc]
             /\ \/ /\ roem' = Captured
                   /\ used_nrows' = [used_nrows EXCEPT ![t] = 0]
                   /\ UNCHANGED tacc
                \/ \E acc \in read_chunk(xcc) :
                     /\ tacc' = [tacc EXCEPT ![t] = [start |-> acc.start,
                                                     end |-> acc.end]]
                     /\ used_nrows' = [used_nrows EXCEPT ![t] = acc.used_nrows]
                     /\ UNCHANGED roem
  /\ tpc' = [tpc EXCEPT ![t] = "ordered"]
  /\ UNCHANGED <<readerinput, chunking, end_of_last_chunk, nrows_written,
                 nrows_allocated, columns_nrows, rpc, next_chunk, ordered_done,
                 ti, row0, committed>>
  /\ UNCHANGED <<aggvars, distvars>>

\* order_chunk(acc, xcc, ctx) of thread t: "ok" with the coordinates and rows
\* to commit, or "throw" when the second read_chunk throws or the assertion
\* i == 0 fails.
order_chunk(t) ==
  IF ChunkInPlace(tacc[t])
  THEN {[ok |-> TRUE, xcc |-> txcc[t], acc |-> tacc[t],
         used_nrows |-> used_nrows[t]]}
  ELSE LET xcc == [txcc[t] EXCEPT !.start = end_of_last_chunk,
                                  !.start_exact = TRUE]
       IN {[ok |-> FALSE, xcc |-> xcc, acc |-> tacc[t], used_nrows |-> 0]}
          \cup {[ok |-> ChunkInPlace(acc), xcc |-> xcc,
                 acc |-> [start |-> acc.start, end |-> acc.end],
                 used_nrows |-> acc.used_nrows] : acc \in read_chunk(xcc)}

\* Variant: every chunk is written after the rows allocated so far.
ChunkRow0_allocated == nrows_allocated
\* tctx->row0 = nrows_written: the output row of the first row of the chunk.
ChunkRow0 == nrows_written

\* Thread t, the ordered section of iteration ti[t]: it runs when the ordered
\* sections of all earlier iterations are over.
OrderedSection(t) ==
  /\ rpc = "parallel"
  /\ tpc[t] = "ordered"
  /\ \A j \in 0..(ti[t] - 1) : j \in ordered_done
  /\ IF roem.stop
     THEN /\ used_nrows' = [used_nrows EXCEPT ![t] = 0]
          /\ UNCHANGED <<end_of_last_chunk, nrows_written, nrows_allocated,
                         columns_nrows, roem, txcc, tacc, row0, committed>>
     ELSE \E r \in order_chunk(t) :
            /\ row0' = [row0 EXCEPT ![t] = ChunkRow0]
            /\ txcc' = [txcc EXCEPT ![t] = r.xcc]
            /\ tacc' = [tacc EXCEPT ![t] = r.acc]
            /\ IF ~r.ok
               THEN /\ roem' = Captured
                    /\ used_nrows' = [used_nrows EXCEPT ![t] = r.used_nrows]
                    /\ UNCHANGED <<end_of_last_chunk, nrows_written,
                                   nrows_allocated, columns_nrows, committed>>
               ELSE LET nrows_new0 == nrows_written + r.used_nrows
                        grow == nrows_new0 > nrows_allocated
                        over == grow /\ OverLimit(nrows_new0)
                        used == IF over THEN nrows_max - nrows_written
                                ELSE r.used_nrows
                        nrows_new == IF over THEN nrows_max ELSE nrows_new0
                    IN /\ end_of_last_chunk' = r.acc.end
                       /\ used_nrows' = [used_nrows EXCEPT ![t] = used]
                       /\ nrows_allocated' =
                            IF grow THEN realloc_output_columns(ti[t], nrows_new)
                            ELSE nrows_allocated
                       /\ columns_nrows' =
                            IF grow /\ nrows_new # nrows_allocated
                            THEN nrows_allocated' ELSE columns_nrows
                       /\ roem' = IF over THEN StopIterations(roem) ELSE roem
                       /\ nrows_written' = nrows_new
                       /\ committed' = Append(committed,
                            [chunk |-> ti[t], start |-> r.acc.start,
                             end |-> r.acc.end, row0 |-> ChunkRow0,
                             read_nrows |-> r.used_nrows, used_nrows |-> used])
  /\ ordered_done' = ordered_done \cup {ti[t]}
  /\ tpc' = [tpc EXCEPT ![t] = "loop"]
  /\ UNCHANGED <<readerinput, chunking, rpc, next_chunk, ti, pushed>>
  /\ UNCHANGED <<aggvars, distvars>>

\* Variant: the buffer is kept whatever happened in the loop.
Discarded_kept(n) == n
\* if (oem.exception_caught()) tctx->used_nrows = 0: the rows left in a buffer
\* of n rows.
Discarded(n) == IF roem.exc THEN 0 ELSE n

\* Thread t after the barrier that ends the loop: with an exception caught its
\* buffer is discarded.
DiscardBuffer(t) ==
  /\ rpc = "parallel"
  /\ tpc[t] = "barrier"
  /\ \A u \in Threads : tpc[u] \in {"barrier", "push", "done"}
  /\ used_nrows' = [used_nrows EXCEPT ![t] = Discarded(@)]
  /\ tpc' = [tpc EXCEPT ![t] = "push"]
  /\ UNCHANGED <<readerinput, chunking, end_of_last_chunk, nrows_written,
                 nrows_allocated, columns_nrows, rpc, roem, next_chunk,
                 ordered_done, ti, txcc, tacc, row0, committed, pushed>>
  /\ UNCHANGED <<aggvars, distvars>>

\* Thread t pushes its buffer one last time; push_buffers may throw.
LastPush(t) ==
  /\ rpc = "parallel"
  /\ tpc[t] = "push"
  /\ IF used_nrows[t] > 0
     THEN \/ /\ pushed' = PushBuffers(t)
             /\ UNCHANGED <<used_nrows, roem>>
          \/ /\ used_nrows' = [used_nrows EXCEPT ![t] = 0]
             /\ roem' = Captured
             /\ UNCHANGED pushed
     ELSE UNCHANGED <<pushed, used_nrows, roem>>
  /\ tpc' = [tpc EXCEPT ![t] = "done"]
  /\ UNCHANGED <<readerinput, chunking, end_of_last_chunk, nrows_written,
                 nrows_allocated, columns_nrows, rpc, next_chunk,
                 ordered_done, ti, txcc, tacc, row0, committed>>
  /\ UNCHANGED <<aggvars, distvars>>

\* read_all() after the parallel region: the exception, if any, is rethrown.
ReaderRethrow ==
  /\ rpc = "parallel"
  /\ \A t \in Threads : tpc[t] = "done"
  /\ roem.exc
  /\ rpc' = "rethrown"
  /\ UNCHANGED <<readerinput, chunking, end_of_last_chunk, nrows_written,
                 nrows_allocated, columns_nrows, roem, next_chunk,
                 ordered_done, threadstate, committed, pushed>>
  /\ UNCHANGED <<aggvars, distvars>>

\* read_all() after the parallel region, no exception: the output is given
\* nrows_written rows and the final assertion is evaluated.
ReaderReturn ==
  /\ rpc = "parallel"
  /\ \A t \in Threads : tpc[t] = "done"
  /\ ~roem.exc
  /\ columns_nrows' = nrows_written
  /\ rpc' = IF nrows_written < nrows_max /\ end_of_last_chunk # input_end
            THEN "assertion_failed" ELSE "returned"
  /\ UNCHANGED <<readerinput, chunking, end_of_last_chunk, nrows_written,
                 nrows_allocated, roem, next_chunk, ordered_done, threadstate,
                 committed, pushed>>
  /\ UNCHANGED <<aggvars, distvars>>

InitRead == NoAggregate /\ NoDistanceCall /\ InitReader

NextRead ==
  \/ ReaderStart
  \/ \E t \in Threads : TakeChunk(t)
  \/ \E t \in Threads : ReadChunk(t)
  \/ \E t \in Threads : OrderedSection(t)
  \/ \E t \in Threads : DiscardBuffer(t)
  \/ \E t \in Threads : LastPush(t)
  \/ ReaderRethrow
  \/ ReaderReturn

ReadSpec == InitRead /\ [][NextRead]_vars

\* ================================================================== claims
\* What the caller holds after aggregate() has returned.
Returned == pc = "done"
ExemplarRows == dt_exemplars_in[1]
MembersCount == dt_exemplars_in[2]
ExemplarId == dt_members_in[1]
NExemplars == Cardinality(DOMAIN ExemplarRows)

RECURSIVE SumTo(_, _)
SumTo(f, n) == IF n = 0 THEN 0 ELSE f[n - 1] + SumTo(f, n - 1)

\* The kept (aggregated) columns in the order of the table.
KeptCols == {contconvs[j] : j \in 1..Len(contconvs)} \cup {dt_cat[j] : j \in 1..Len(dt_cat)}
HasNA(i) == \E c \in KeptCols : ISNA(cells[c][i])
OnBinningPath ==
  path \in {"1d_continuous", "1d_categorical",
            "2d_continuous", "2d_categorical", "2d_mixed"}
On2dPath == path \in {"2d_continuous", "2d_categorical", "2d_mixed"}

\* C1: after aggregate returns, every exemplar_id is missing or an index into
\* the exemplars table, and it is missing only if sample_exemplars sampled.
C1_ExemplarIdValid ==
  Returned =>
    \A i \in Rows :
      \/ ExemplarId[i] = NA_I4 /\ was_sampled
      \/ ExemplarId[i] >= 0 /\ ExemplarId[i] < NExemplars

\* A run that sampled and returned both discarded and retained rows.
C1_Witness ==
  /\ Returned
  /\ was_sampled
  /\ \E i, j \in Rows : ExemplarId[i] = NA_I4 /\ ExemplarId[j] # NA_I4

\* C2: after aggregate returns, members_count[e] is the number of rows whose
\* exemplar_id is e, and the counts add up to N minus the rows whose
\* exemplar_id is missing.
C2_CountsMatch ==
  Returned =>
    /\ \A e \in DOMAIN MembersCount :
         MembersCount[e] = Cardinality({i \in Rows : ExemplarId[i] = e})
    /\ SumTo(MembersCount, NExemplars)
         = nrows - Cardinality({i \in Rows : ExemplarId[i] = NA_I4})

\* A sampled run with a discarded row and an exemplar of two rows or more.
C2_Witness ==
  /\ Returned
  /\ \E i \in Rows : ExemplarId[i] = NA_I4
  /\ \E e \in DOMAIN MembersCount : MembersCount[e] >= 2

\* C3: after aggregate returns, row e of the exemplars table is input row
\* ExemplarRows[e], a row whose exemplar_id is e, and no input row is copied
\* into two exemplar rows.
C3_ExemplarIsMember ==
  Returned =>
    /\ \A e \in DOMAIN ExemplarRows :
         ExemplarRows[e] \in Rows /\ ExemplarId[ExemplarRows[e]] = e
    /\ \A e, f \in DOMAIN ExemplarRows :
         ExemplarRows[e] = ExemplarRows[f] => e = f

\* Two exemplars or more, one of them with several members, the exemplar not
\* being the row of the same number.
C3_Witness ==
  /\ Returned
  /\ NExemplars >= 2
  /\ \E e \in DOMAIN ExemplarRows : MembersCount[e] >= 2 /\ ExemplarRows[e] # e

\* members is a permutation of [0, N) that follows the sort by the first
\* column: ascending in the values, the missing values together at one end.
IsRankOfFirstColumn(m) ==
  LET v == cells[1]
      Present == {i \in Rows : ~ISNA(v[i])}
      Missing == {i \in Rows : ISNA(v[i])}
  IN /\ {m[i] : i \in Rows} = Rows
     /\ \A i, j \in Present : v[i] < v[j] => m[i] < m[j]
     /\ \/ \A i \in Missing, j \in Present : m[i] > m[j]
        \/ \A i \in Missing, j \in Present : m[i] < m[j]

ExemplarWithId(id) == CHOOSE j \in 1..Len(exemplars) : exemplars[j].id = id

\* C5: on the N-D path, after aggregate returns, every row with non-missing
\* coordinates is within the final delta of the root exemplar it is assigned
\* to. Refuted by a run in which another row has no non-missing coordinate.
C5_WithinDelta ==
  (Returned /\ path = "nd") =>
    \A i \in Rows :
      (~ISNA(coords[i]) /\ ExemplarId[i] # NA_I4) =>
        LET root == exemplars[ExemplarWithId(gb_members[i])]
        IN LessDelta(calculate_distance(coords[i], coords[root.row], delta, FALSE),
                     delta)

\* C6: on the N-D path, after aggregate returns, the exemplars table has at
\* most nd_max_bins rows.
C6_NdBound == (Returned /\ path = "nd") => NExemplars <= nd_max_bins

\* An N-D run in which adjust_delta was called and never merged: more
\* exemplars than nd_max_bins were left for the sampler.
C6_Witness ==
  /\ Returned
  /\ path = "nd"
  /\ Len(ids) > nd_max_bins
  /\ \A e \in 1..Len(ids) : ids[e] = e - 1
  /\ Len(exemplars) = Len(ids)

\* The groups of the pre-sampling column that sample_exemplars selected.
SelectedGroups ==
  {g \in 0..(ngroups(gb_members) - 1) :
     \E i \in Rows : GroupOf(gb_members, gb_members[i]) = g /\ members[i] # NA_I4}

ClaimedMaxBins ==
  CASE path \in {"0d", "nd"} -> nd_max_bins
    [] path \in {"1d_continuous", "1d_categorical"} -> n_bins
    [] OTHER -> nx_bins * ny_bins
ClaimedNaBins ==
  CASE path \in {"0d", "nd"} -> 0
    [] path \in {"1d_continuous", "1d_categorical"} -> 1
    [] OTHER -> 3

FirstCol == SetMin(KeptCols)
SecondCol == SetMax(KeptCols)

\* C9: in the 2-D paths the pre-finalization members value of a row is -1 for
\* (value, NA), -2 for (NA, value) and -3 for (NA, NA). Refuted:
\* group_2d_continuous writes -2 for (value, NA) and -1 for (NA, value).
C9_NaSentinels ==
  (pc = "sample" /\ On2dPath) =>
    \A i \in Rows :
      LET na0 == ISNA(cells[FirstCol][i])
          na1 == ISNA(cells[SecondCol][i])
      IN /\ (~na0 /\ na1) => members[i] = -1
         /\ (na0 /\ ~na1) => members[i] = -2
         /\ (na0 /\ na1) => members[i] = -3

\* C10: on the 1-D and 2-D paths a row with a missing value in an aggregated
\* column never has the members value (exemplar_id) of a row without one:
\* after grouping, after sampling and after finalization, rows discarded by
\* the sampler aside.
C10_NaSegregated ==
  (OnBinningPath /\ pc \in {"sample", "finalize", "done"}) =>
    \A i, j \in Rows :
      (HasNA(i) /\ ~HasNA(j) /\ ~(was_sampled /\ members[i] = NA_I4))
        => members[i] # members[j]

\* A 2-D run that returned with a row with a missing value and a row without.
C10_Witness ==
  /\ Returned
  /\ On2dPath
  /\ \E i, j \in Rows : HasNA(i) /\ ~HasNA(j)

\* floor(factor * x + shift) for the value of row i of the only continuous
\* column, with the coefficients of set_norm_coeffs for n_bins.
FloorBin(i) ==
  LET c == contconvs[1]
  IN NormBin(cells[c][i], get_min(c), get_max(c), n_bins)

\* C11: on the 1-D continuous path, after aggregate returns, two rows with
\* non-missing values have the same exemplar_id if and only if
\* floor(factor * x + shift) is the same for both.
C11_SameBinSameId ==
  (Returned /\ path = "1d_continuous") =>
    \A i, j \in Rows :
      (~ISNA(cells[contconvs[1]][i]) /\ ~ISNA(cells[contconvs[1]][j])) =>
        (ExemplarId[i] = ExemplarId[j] <=> FloorBin(i) = FloorBin(j))

\* Three rows with values, two in one bin and the third in another.
C11_Witness ==
  /\ Returned
  /\ path = "1d_continuous"
  /\ \E i, j, l \in Rows :
       /\ i # j
       /\ \A r \in {i, j, l} : ~ISNA(cells[contconvs[1]][r])
       /\ FloorBin(i) = FloorBin(j)
       /\ FloorBin(i) # FloorBin(l)

\* The columns that take part in the grouping: the numeric columns, and the
\* other columns when the table has fewer than 3 columns.
KeptCount ==
  Cardinality({c \in 1..Len(stypes) : stypes[c] = "num" \/ Len(stypes) < 3})
Paths2d == {"2d_continuous", "2d_categorical", "2d_mixed", "2d_error"}
PathFor(n, numeric) ==
  CASE n = 0 -> {"0d"}
    [] n = 1 -> IF numeric THEN {"1d_continuous"} ELSE {"1d_categorical"}
    [] n = 2 -> Paths2d
    [] OTHER -> {"nd"}

\* C12 as claimed: below min_rows the 0-D path, otherwise the path follows
\* the column count of the input table. Refuted by a table of three columns
\* of which one is numeric: it takes the 1-D path.
C12_Dispatch_Original ==
  (path # "none") =>
    IF nrows < min_rows THEN path = "0d"
    ELSE path \in PathFor(Len(stypes), stypes[1] = "num")

\* C12 as amended: below min_rows the 0-D path, otherwise the path follows
\* the number of columns that take part in the grouping (the numeric columns,
\* and the categorical ones only when the table has fewer than 3 columns).
C12_Dispatch ==
  (path # "none") =>
    IF nrows < min_rows THEN path = "0d"
    ELSE path \in PathFor(KeptCount, \E c \in 1..Len(stypes) : stypes[c] = "num")

\* A table of three columns, one of them numeric, grouped on the 1-D path.
C12_Witness ==
  /\ path = "1d_continuous"
  /\ Len(stypes) = 3
  /\ nrows >= min_rows

\* Equality of two distances as the program compares them: a NaN is equal to
\* nothing, itself included.
SameDistance(a, b) == a # NaN /\ b # NaN /\ a = b

\* C16: calculate_distance(x, y) = calculate_distance(y, x) and
\* calculate_distance(x, x) = 0 for the coordinate vectors of any two rows,
\* whatever components are missing. Refuted by a vector without any
\* non-missing component: the result is 0/0.
C16_DistanceSymmetric ==
  (pc = "nd") =>
    \A i, j \in Rows :
      /\ SameDistance(calculate_distance(coords[i], coords[j], delta, TRUE),
                      calculate_distance(coords[j], coords[i], delta, TRUE))
      /\ SameDistance(calculate_distance(coords[i], coords[i], delta, TRUE), 0)

\* C17: the renumbering of aggregate_exemplars, applied with the same
\* was_sampled flag to the members column aggregate has returned, changes no
\* entry.
C17_FinalizeIdempotent ==
  Returned => FinalMembers(ExemplarId, was_sampled) = ExemplarId

\* A run in which the renumbering changed the ids the grouping had written
\* (a bin was empty), and the rows are in two exemplars or more.
C17_Witness ==
  /\ Returned
  /\ ~was_sampled
  /\ gb_members # <<>>
  /\ ExemplarId # gb_members
  /\ NExemplars >= 2

\* The row that thread w is working on is, right now, not within delta of
\* any exemplar of the table.
FarFromAll(w) ==
  \A j \in 1..Len(exemplars) :
    ~LessDelta(calculate_distance(coords[wrow[w]], coords[exemplars[j].row],
                                  delta, FALSE), delta)

\* C19: a thread that leaves the exclusive block has made its row an exemplar
\* only if ecounter was still the value it read during its last scan, and
\* then the row was not within the current delta of any exemplar of the
\* table; otherwise it has changed nothing and goes back to the scan.
C19_LockUpgrade ==
  [][\A w \in 0..(nth - 1) :
       (pc = "nd" /\ wpc[w] = "is_exemplar" /\ wpc'[w] # "is_exemplar") =>
         IF ecounter_local[w] = ecounter
         THEN /\ ecounter' = ecounter + 1
              /\ Len(ids') = Len(ids) + 1
              /\ members'[wrow[w]] = Len(ids)
              /\ FarFromAll(w)
         ELSE /\ wpc'[w] = "test_member"
              /\ wrow'[w] = wrow[w]
              /\ UNCHANGED <<members, exemplars, ids, delta, ecounter>>]_vars

\* A thread holds a stale snapshot when it enters the exclusive block: another
\* thread has inserted an exemplar since its scan.
C19_Witness ==
  /\ pc = "nd"
  /\ \E w \in 0..(nth - 1) :
       /\ wpc[w] = "is_exemplar"
       /\ ecounter_local[w] # ecounter
       /\ Len(exemplars) >= 1

\* The rows group_nd has written so far: those its thread has left behind.
NdWritten(i) ==
  LET w == i % nth
  IN wrow[w] > i \/ (wrow[w] = i /\ wpc[w] = "done")

\* C20: in every state of the N-D loop, the exemplar_id written for a row is
\* the id of an exemplar that has been created: it is below the length of ids.
C20_IdCausality ==
  (pc = "nd") =>
    \A i \in Rows : NdWritten(i) => (members[i] >= 0 /\ members[i] < Len(ids))

\* Two threads in the loop, a row assigned to an exemplar made by the other
\* thread while that thread is still running.
C20_Witness ==
  /\ pc = "nd"
  /\ nth >= 2
  /\ \E i \in Rows, j \in 1..Len(exemplars) :
       /\ NdWritten(i)
       /\ members[i] = exemplars[j].id
       /\ exemplars[j].row % nth # i % nth
       /\ wpc[exemplars[j].row % nth] # "done"

\* aggregate() has ended with an exception.
Failed == pc = "error"
\* The caller's output references as they are on entry to aggregate().
UnsetOutput == <<>>

\* C13: when aggregate ends with an error (the schema error of a 2-D path, or
\* the exception of an N-D thread rethrown after the parallel region), the
\* caller's references dt_exemplars_in and dt_members_in are as on entry.
C13_OutputsUntouched ==
  Failed => (dt_exemplars_in = UnsetOutput /\ dt_members_in = UnsetOutput)

\* An N-D run that failed after rows had been assigned and exemplars made.
C13_Witness ==
  /\ Failed
  /\ path = "nd"
  /\ Len(exemplars) >= 1
  /\ \E i \in Rows : NdWritten(i)

\* C14: once a thread's exception is held by the exception manager, no other
\* thread goes on to another row, the exception held stays the first one, and
\* group_nd ends by rethrowing it, without adjust_members. Refuted: the loop
\* never looks at the exception manager, the other threads process all their
\* rows.
C14_WorkersStop ==
  [][(pc = "nd" /\ oem # "none") =>
       /\ \A w \in 0..(nth - 1) : wrow'[w] = wrow[w]
       /\ oem' = oem
       /\ pc' \in {"nd", "error"}]_vars

\* The status of the last call received by the progress sink.
LastStatus == progress_log[Len(progress_log)][2]

\* C15: the progress sink receives (0.0, 0) first and, on success, (1.0, 1)
\* last; a failed run ends with a call of status 3 when a host interrupt was
\* captured and of status 2 for any other error, and never reports status 1.
\* Refuted: no call is made on the error paths.
C15_ProgressStatus ==
  /\ progress_log # <<>> => progress_log[1] = <<0, 0>>
  /\ Returned => progress_log[Len(progress_log)] = <<nrows, 1>>
  /\ Failed =>
       /\ LastStatus = (IF oem = "interrupt" THEN 3 ELSE 2)
       /\ \A n \in 1..Len(progress_log) : progress_log[n][2] # 1

\* C18: with the seed parameter 0, every random generator seeded during a call
\* (projection matrix, threads of the N-D loop, sampler) is seeded from a value
\* drawn from OS entropy, in every call on the same Aggregator. Refuted: the
\* generators of the threads are seeded with seed + ith without the test for
\* 0, so when group_nd does not project they get the literal 0 + ith.
C18_SeedFromEntropy ==
  (seed # "user") =>
    \A g \in {"pmatrix", "workers", "sampler"} :
      gen_seed[g] \in {"unused", "entropy"}

\* C21: in every state, ids[k] <= k for every exemplar id k created so far
\* (a merge redirects an id to a lower id only), so that following ids from
\* any id ends at an id that is its own parent.
C21_MergeMapAcyclic ==
  /\ \A e \in 1..Len(ids) : ids[e] <= e - 1
  /\ \A e \in 1..Len(ids) :
       LET r == calculate_map(ids, e - 1) IN r <= e - 1 /\ ids[r + 1] = r

\* A chain of two merges: an id redirected to an id that is itself redirected.
C21_Witness ==
  \E e \in 1..Len(ids) :
    /\ ids[e] # e - 1
    /\ ids[ids[e] + 1] # ids[e]

\* C22: whenever a thread can scan a table of nex >= 1 exemplars, every entry
\* of the coprime list it reads is coprime with nex, and for every start e0
\* and every entry c0 of the list the indices (k * coprimes[c0] + e0) mod nex,
\* k = 0..nex-1, are all of 0..nex-1, each once.
C22_ScanPermutation ==
  (pc = "nd" /\ Len(exemplars) >= 1) =>
    LET nex == Len(exemplars)
    IN /\ Len(coprimes) >= 1
       /\ \A c \in 1..Len(coprimes) : GCD(coprimes[c], nex) = 1
       /\ \A e0 \in 0..(nex - 1), c0 \in 0..(Len(coprimes) - 1) :
            /\ {ScanIndex(kk, e0, c0) : kk \in 0..(nex - 1)} = 0..(nex - 1)
            /\ \A k1, k2 \in 0..(nex - 1) :
                 ScanIndex(k1, e0, c0) = ScanIndex(k2, e0, c0) => k1 = k2

\* A thread about to scan three exemplars with a choice of two strides.
C22_Witness ==
  /\ pc = "nd"
  /\ Len(exemplars) >= 3
  /\ Len(coprimes) >= 2
  /\ \E w \in 0..(nth - 1) : wpc[w] = "test_member"

\* Thread w leaves the row it is working on.
LeavesRow(w) ==
  /\ wpc[w] \in {"test_member", "is_exemplar"}
  /\ wrow'[w] # wrow[w] \/ wpc'[w] = "done"

\* C23: in the N-D loop thread w of nth works on rows i with i mod nth = w
\* only, from row w on in steps of nth until the end of the table; members[i]
\* changes only in the step in which thread i mod nth leaves row i, and that
\* step leaves the id of a created exemplar there; when every thread is done
\* every row has been left by its thread.
C23_StripedOwnership ==
  [][(pc' = "nd") =>
       /\ \A w \in 0..(nth - 1) : wrow'[w] % nth = w
       /\ (pc = "start") => \A w \in 0..(nth - 1) : wrow'[w] = w
       /\ (pc = "nd") =>
            /\ \A w \in 0..(nth - 1) :
                 /\ wrow'[w] \in {wrow[w], wrow[w] + nth}
                 /\ (wpc'[w] = "done" /\ wpc[w] # "done") => wrow[w] + nth >= nrows
                 /\ LeavesRow(w) =>
                      (members'[wrow[w]] >= 0 /\ members'[wrow[w]] < Len(ids'))
            /\ \A i \in Rows :
                 members'[i] # members[i] => (LeavesRow(i % nth) /\ wrow[i % nth] = i)
       /\ (\A w \in 0..(nth - 1) : wpc'[w] = "done") =>
            \A i \in Rows : wrow'[i % nth] >= i]_vars

\* Two threads have both left a row, each row holding a different exemplar id.
C23_Witness ==
  /\ pc = "nd"
  /\ nth >= 2
  /\ \E i, j \in Rows :
       /\ i % nth # j % nth
       /\ NdWritten(i)
       /\ NdWritten(j)
       /\ members[i] # members[j]
  /\ \E w \in 0..(nth - 1) : wpc[w] # "done"

\* The exemplar vector on entry to adjust_delta when thread w inserts its row.
EntryVector(w) == Append(exemplars, [id |-> Len(ids), row |-> wrow[w]])
\* Thread w is in the exclusive block and will insert its row and call
\* adjust_delta.
CallsAdjustDelta(w) ==
  /\ pc = "nd"
  /\ wpc[w] = "is_exemplar"
  /\ ecounter_local[w] = ecounter
  /\ Len(exemplars) + 1 > nd_max_bins

AbsDiff(a, b) == IF a >= b THEN a - b ELSE b - a
\* The Euclidean distance of the exemplars at positions i and j of ex.
ExDistance(ex, i, j) == AbsDiff(coords[ex[i + 1].row], coords[ex[j + 1].row])
RECURSIVE SumDistances(_, _)
SumDistances(ex, S) ==
  IF S = {} THEN 0
  ELSE LET p == CHOOSE q \in S : TRUE
       IN ExDistance(ex, p[1], p[2]) + SumDistances(ex, S \ {p})
\* The squared distance of positions i and j is below delta_merge, the square
\* of half the mean distance of all pairs of ex (never, when a distance is
\* not a number).
WithinMergeRadius(ex, i, j) ==
  /\ \A m \in 1..Len(ex) : ~ISNA(coords[ex[m].row])
  /\ 2 * Cardinality(PairsOf(Len(ex))) * ExDistance(ex, i, j)
       < SumDistances(ex, PairsOf(Len(ex)))
\* The exemplar at position j of ex is in the vector after the step.
Survives(ex, j) == \E m \in 1..Len(exemplars') : exemplars'[m] = ex[j + 1]

\* C24 as claimed: for every pair of positions i < j of the vector on entry
\* to adjust_delta whose squared distance is below delta_merge, after the
\* call ids[id of j] = id of i and exemplar j is removed. Refuted: a pair one
\* of whose exemplars has been merged earlier in the call is skipped.
C24_MergeClosePairs_Original ==
  [][\A w \in 0..(nth - 1) :
       (CallsAdjustDelta(w) /\ wpc'[w] # wpc[w]) =>
         LET ex == EntryVector(w)
         IN \A i, j \in 0..(Len(ex) - 1) :
              (i < j /\ WithinMergeRadius(ex, i, j)) =>
                (ids'[ex[j + 1].id + 1] = ex[i + 1].id /\ ~Survives(ex, j))]_vars

\* C24 as amended: exemplar j of the vector on entry to adjust_delta is
\* removed exactly when an exemplar at a lower position that is itself kept
\* is within delta_merge of it, and ids[id of j] is then the id of the first
\* such exemplar; otherwise j is kept and ids[id of j] is as before.
C24_MergeClosePairs ==
  [][\A w \in 0..(nth - 1) :
       (CallsAdjustDelta(w) /\ wpc'[w] # wpc[w]) =>
         LET ex == EntryVector(w)
             ids1 == Append(ids, Len(ids))
         IN \A j \in 0..(Len(ex) - 1) :
              LET H == {h \in 0..(j - 1) :
                          Survives(ex, h) /\ WithinMergeRadius(ex, h, j)}
              IN IF H = {}
                 THEN /\ Survives(ex, j)
                      /\ ids'[ex[j + 1].id + 1] = ids1[ex[j + 1].id + 1]
                 ELSE /\ ~Survives(ex, j)
                      /\ ids'[ex[j + 1].id + 1] = ex[SetMin(H) + 1].id]_vars

\* adjust_delta is about to be called on four exemplars of which the second
\* is within delta_merge of the first, and the third within delta_merge of
\* the second but not of the first.
C24_Witness ==
  \E w \in 0..(nth - 1) :
    /\ CallsAdjustDelta(w)
    /\ Len(EntryVector(w)) = 4
    /\ WithinMergeRadius(EntryVector(w), 0, 1)
    /\ WithinMergeRadius(EntryVector(w), 1, 2)
    /\ ~WithinMergeRadius(EntryVector(w), 0, 2)

\* sqrt(d2) = sqrt(d1) + half the mean distance of the pairs of ex, for two
\* values d1, d2 of delta that are numbers.
GrownByMergeRadius(d1, d2, ex) ==
  LET np == Cardinality(PairsOf(Len(ex)))
  IN /\ ~d1.nan
     /\ ~d2.nan
     /\ d2.num * d1.den * 2 * np
          = d2.den * (d1.num * 2 * np + SumDistances(ex, PairsOf(Len(ex))) * d1.den)
     /\ d2.num * d1.den >= d1.num * d2.den

\* C25: delta is machine epsilon when the N-D loop starts; during the loop it
\* changes only in a step that calls adjust_delta inside the exclusive block,
\* and such a step leaves a delta that is not smaller, with
\* sqrt(delta_new) = sqrt(delta_old) + sqrt(delta_merge). Refuted by a table
\* with a row without any non-missing value: delta_merge and delta become
\* 0/0-poisoned (not a number).
C25_DeltaGrows ==
  [][/\ (pc = "start" /\ pc' = "nd") => delta' = DeltaEpsilon
     /\ (pc = "nd") =>
          /\ delta' # delta =>
               \E w \in 0..(nth - 1) : CallsAdjustDelta(w) /\ wpc'[w] # wpc[w]
          /\ \A w \in 0..(nth - 1) :
               (CallsAdjustDelta(w) /\ wpc'[w] # wpc[w]) =>
                 GrownByMergeRadius(delta, delta', EntryVector(w))]_vars

\* The id reached from id by n steps along idv.
RECURSIVE Follow(_, _, _)
Follow(idv, id, n) == IF n = 0 THEN id ELSE Follow(idv, idv[id + 1], n - 1)

\* C26: the step adjust_members replaces every members[i] by the id r with
\* ids[r] = r that is reached by following ids from the value the loop left
\* in members[i], and r is the id of an exemplar that is in the exemplar
\* vector at the end of the loop.
C26_MembersAtRoot ==
  [][(pc = "nd" /\ pc' = "sample") =>
       \A i \in Rows :
         LET r == Follow(ids, members[i], Len(ids))
         IN /\ members'[i] = r
            /\ ids[r + 1] = r
            /\ \E m \in 1..Len(exemplars) : exemplars[m].id = r]_vars

\* adjust_members has run on an ids vector with a chain of two merges: the
\* row that made the exemplar at the head of the chain is two steps from its
\* root.
C26_Witness ==
  /\ pc = "sample"
  /\ path = "nd"
  /\ \E e \in 1..Len(ids) :
       /\ ids[e] # e - 1
       /\ ids[ids[e] + 1] # ids[e]
       /\ \E i \in Rows : members[i] = ids[ids[e] + 1]

\* Thread w inserts its row as a new exemplar in this step.
Inserts(w) ==
  /\ pc = "nd"
  /\ wpc[w] = "is_exemplar"
  /\ ecounter_local[w] = ecounter
  /\ wpc'[w] # wpc[w]

\* C27: the N-D loop starts with no exemplar, no id and ecounter = 0; between
\* two exclusive blocks |ids| = ecounter; both grow by one exactly in a step
\* that creates an exemplar, whose id is the number of exemplars created
\* before it and is its own parent unless adjust_delta merges it in that
\* same block; an exemplar of the vector keeps its id.
C27_IdsInCreationOrder ==
  [][/\ (pc = "start" /\ pc' = "nd") =>
          (ecounter' = 0 /\ ids' = <<>> /\ exemplars' = <<>>)
     /\ (pc = "nd" /\ pc' = "nd") =>
          /\ Len(ids') = ecounter'
          /\ IF \E w \in 0..(nth - 1) : Inserts(w)
             THEN \E w \in 0..(nth - 1) :
                    /\ Inserts(w)
                    /\ ecounter' = ecounter + 1
                    /\ members'[wrow[w]] = ecounter
                    /\ \A e \in 1..Len(ids) : ids'[e] = ids[e] \/ ids[e] = e - 1
                    /\ ids'[ecounter + 1] = ecounter
                         <=> \E m \in 1..Len(exemplars') :
                               exemplars'[m] = [id |-> ecounter, row |-> wrow[w]]
             ELSE ecounter' = ecounter /\ ids' = ids /\ exemplars' = exemplars
          /\ \A m \in 1..Len(exemplars), n \in 1..Len(exemplars') :
               exemplars[m].row = exemplars'[n].row
                 => exemplars[m].id = exemplars'[n].id]_vars

\* Two threads in the loop, merges have taken exemplars out of the vector, and
\* the exemplar created last is in it: its id is not its position.
C27_Witness ==
  /\ pc = "nd"
  /\ nth >= 2
  /\ Len(ids) >= 3
  /\ \E m \in 1..Len(exemplars) :
       exemplars[m].id = Len(ids) - 1 /\ exemplars[m].id # m - 1

\* The bin of row i in the first continuous column, for nx_bins bins.
XBin(i) ==
  LET c == contconvs[1]
  IN NormBin(cells[c][i], get_min(c), get_max(c), nx_bins)
\* The bin of row i in the second continuous column, for ny_bins bins.
YBin(i) ==
  LET c == contconvs[2]
  IN NormBin(cells[c][i], get_min(c), get_max(c), ny_bins)
\* The other component of the combined id of row i: the y-bin on the 2-D
\* continuous path, the category on the 2-D mixed path.
OtherComponent(i) ==
  IF path = "2d_continuous" THEN YBin(i) ELSE cells[dt_cat[1]][i]

\* C28: on the 2-D continuous and the 2-D mixed path the x-bin of every row
\* without a missing value is in [0, nx_bins), and two such rows have the
\* same members value after grouping, and the same exemplar_id after
\* aggregate returns (rows discarded by the sampler, which get no id, aside),
\* if and only if they agree in both components.
C28_CombinedIdInjective ==
  (path \in {"2d_continuous", "2d_mixed"} /\ pc \in {"sample", "finalize", "done"}) =>
    LET full == {i \in Rows : ~HasNA(i) /\ members[i] # NA_I4}
        xbin == [i \in full |-> XBin(i)]
        other == [i \in full |-> OtherComponent(i)]
    IN /\ \A i \in full : xbin[i] >= 0 /\ xbin[i] < nx_bins
       /\ \A i, j \in full :
            members[i] = members[j] <=> (xbin[i] = xbin[j] /\ other[i] = other[j])

\* A 2-D continuous run has returned with two rows whose bins are (1, 0) and
\* (0, 1).
C28_Witness ==
  /\ Returned
  /\ path = "2d_continuous"
  /\ \E i, j \in Rows :
       /\ ~HasNA(i) /\ ~HasNA(j)
       /\ XBin(i) = 1 /\ YBin(i) = 0
       /\ XBin(j) = 0 /\ YBin(j) = 1

\* The rows of the cluster of row i: those with the same root exemplar.
Cluster(i) == {j \in Rows : gb_members[j] = gb_members[i]}
\* The row that created the root exemplar of the cluster of row i.
RootCreator(i) == exemplars[ExemplarWithId(gb_members[i])].row

\* C29 as claimed: on the N-D path, after aggregate returns, the row of the
\* exemplars table for a cluster is the row that created the cluster's root
\* exemplar, and a row that is alone in its cluster is its own exemplar with
\* members_count = 1. Refuted: with two threads a row can be captured by an
\* exemplar that a higher-numbered row has created, and the exemplars table
\* takes the first row of the cluster.
C29_ExemplarIsCreator_Original ==
  (Returned /\ path = "nd") =>
    \A i \in Rows :
      /\ ExemplarId[i] # NA_I4 => ExemplarRows[ExemplarId[i]] = RootCreator(i)
      /\ Cluster(i) = {i} =>
           /\ ExemplarId[i] # NA_I4
           /\ ExemplarRows[ExemplarId[i]] = i
           /\ MembersCount[ExemplarId[i]] = 1

\* C29 as amended: on the N-D path, after aggregate returns, the row of the
\* exemplars table for a cluster the sampler has not discarded is the
\* lowest-numbered row of the cluster, and members_count is the size of the
\* cluster; with one thread that row is the row that created the cluster's
\* root exemplar; a row alone in its cluster is its own exemplar with
\* members_count = 1.
C29_ExemplarIsCreator ==
  (Returned /\ path = "nd") =>
    \A i \in Rows :
      ExemplarId[i] # NA_I4 =>
        /\ ExemplarRows[ExemplarId[i]] = SetMin(Cluster(i))
        /\ MembersCount[ExemplarId[i]] = Cardinality(Cluster(i))
        /\ nth = 1 => ExemplarRows[ExemplarId[i]] = RootCreator(i)
        /\ Cluster(i) = {i} =>
             (ExemplarRows[ExemplarId[i]] = i /\ MembersCount[ExemplarId[i]] = 1)

\* A run of two threads has returned a cluster whose row in the exemplars
\* table is not the row that created its root exemplar, and a row that is
\* alone in its cluster.
C29_Witness ==
  /\ Returned
  /\ path = "nd"
  /\ nth >= 2
  /\ \E i \in Rows :
       ExemplarId[i] # NA_I4 /\ ExemplarRows[ExemplarId[i]] # RootCreator(i)
  /\ \E i \in Rows : ExemplarId[i] # NA_I4 /\ Cluster(i) = {i}

\* The exemplar with id kk is in the exemplar vector.
InVector(kk) == \E m \in 1..Len(exemplars) : exemplars[m].id = kk

\* C30: between two exclusive blocks of the N-D loop the exemplar vector is
\* strictly increasing in id and holds no merged exemplar: an id is its own
\* parent in ids if and only if its exemplar is in the vector; and an id that
\* a merge has redirected is never redirected again.
C30_VectorSorted ==
  [][(pc' = "nd") =>
       /\ \A m, n \in 1..Len(exemplars') :
            m < n => exemplars'[m].id < exemplars'[n].id
       /\ \A e \in 1..Len(ids') : (ids'[e] = e - 1) <=> InVector(e - 1)'
       /\ (pc = "nd") =>
            \A e \in 1..Len(ids) : ids[e] # e - 1 => ids'[e] = ids[e]]_vars

\* The loop is still at work after a merge: two exemplars or more are in the
\* vector, and an id below that of the last one is redirected.
C30_Witness ==
  /\ pc = "nd"
  /\ Len(exemplars) >= 2
  /\ \E e \in 1..Len(ids) :
       ids[e] # e - 1 /\ e - 1 < exemplars[Len(exemplars)].id
  /\ Len(ids) >= Len(exemplars) + 1
  /\ \E w \in 0..(nth - 1) : wpc[w] \in {"test_member", "is_exemplar"}

\* The squared distance of the exemplars a and b is a number that is not
\* below delta_merge, the square of half the mean distance of the pairs of ex.
ApartByMergeRadius(ex, a, b) ==
  /\ \A m \in 1..Len(ex) : ~ISNA(coords[ex[m].row])
  /\ 2 * Cardinality(PairsOf(Len(ex))) * AbsDiff(coords[a.row], coords[b.row])
       >= SumDistances(ex, PairsOf(Len(ex)))

\* C31: after adjust_delta returns, every two exemplars left in the vector
\* have a squared distance (no early exit) of at least the delta_merge of
\* that call, and every exemplar removed in the call was merged into one that
\* the call keeps. Refuted by rows without any non-missing value: their
\* distance is 0/0, which is not at least anything.
C31_MergedApart ==
  [][\A w \in 0..(nth - 1) :
       (CallsAdjustDelta(w) /\ wpc'[w] # wpc[w]) =>
         LET ex == EntryVector(w)
         IN /\ \A a, b \in 1..Len(exemplars') :
                 a < b => ApartByMergeRadius(ex, exemplars'[a], exemplars'[b])
            /\ \A j \in 0..(Len(ex) - 1) :
                 ~Survives(ex, j) =>
                   \E h \in 0..(Len(ex) - 1) :
                     /\ Survives(ex, h)
                     /\ ids'[ex[j + 1].id + 1] = ex[h + 1].id]_vars

\* The two calls have been made.
BothCalled == DOMAIN distance = BOOLEAN /\ \A b \in BOOLEAN : distance[b] # NotCalled
\* Some component is non-missing in both vectors.
JointlyPresent == \E i \in 1..d_ndims : ~ISNA(d_e1[i]) /\ ~ISNA(d_e2[i])

\* C32: for vectors with a jointly non-missing component and delta > 0,
\* calculate_distance with early exit returns a value below delta exactly
\* when calculate_distance without early exit does.
C32_EarlyExitSameCapture ==
  (BothCalled /\ JointlyPresent) =>
    (BelowDelta(distance[TRUE], d_delta) <=> BelowDelta(distance[FALSE], d_delta))

\* The early exit was taken, with a component missing: the two calls return
\* different values.
C32_Witness ==
  /\ BothCalled
  /\ JointlyPresent
  /\ \E i \in 1..d_ndims : ISNA(d_e1[i]) \/ ISNA(d_e2[i])
  /\ distance[TRUE].num * distance[FALSE].den # distance[FALSE].num * distance[TRUE].den

\* Thread w leaves the exclusive block for another scan of the same row.
Rescans(w) ==
  /\ pc = "nd"
  /\ wpc[w] = "is_exemplar"
  /\ wpc'[w] = "test_member"
  /\ wrow'[w] = wrow[w]

\* C33: with fair locks the parallel loop of group_nd terminates: at most
\* nrows exemplars are created, a thread scans a row again only when an
\* exemplar was created after its last scan, and every thread leaves its loop.
C33_LoopTerminates ==
  /\ [](pc = "nd" => ecounter <= nrows)
  /\ [][\A w \in 0..(nth - 1) : Rescans(w) => ecounter > ecounter_local[w]]_vars
  /\ (pc = "nd") ~> (pc = "nd" /\ \A w \in 0..(nth - 1) : wpc[w] = "done")

\* A thread is about to scan its row a second time, two other exemplars
\* having been created since its scan.
C33_Witness ==
  /\ pc = "nd"
  /\ nth >= 2
  /\ \E w \in 0..(nth - 1) :
       /\ wpc[w] = "is_exemplar"
       /\ ecounter >= ecounter_local[w] + 2

\* ------------------------------------------------------------ ParallelReader
\* The chunks committed so far, in the order of their ordered sections.
Commits == 1..Len(committed)
\* The ordered section of thread t commits its chunk in this step.
CommitsChunk(t) ==
  /\ rpc = "parallel"
  /\ tpc[t] = "ordered"
  /\ tpc'[t] = "loop"
  /\ Len(committed') = Len(committed) + 1
LastCommitted == committed[Len(committed)]

\* C34: chunks are committed in increasing order of their index; a committed
\* chunk starts at the end_of_last_chunk of the moment of its commit, a chunk
\* read from elsewhere having been read again from there; the committed
\* chunks tile the input from input_start, and end_of_last_chunk never
\* decreases.
C34_ChunksTile ==
  /\ [](/\ \A m, n \in Commits : m < n => committed[m].chunk < committed[n].chunk
        /\ \A m \in Commits :
             /\ committed[m].start =
                  (IF m = 1 THEN input_start ELSE committed[m - 1].end)
             /\ committed[m].start <= committed[m].end
             /\ committed[m].end <= input_end
        /\ end_of_last_chunk =
             (IF committed = <<>> THEN input_start ELSE LastCommitted.end))
  /\ [][/\ end_of_last_chunk' >= end_of_last_chunk
        /\ \A t \in Threads :
             CommitsChunk(t) =>
               /\ committed'[Len(committed')].chunk = ti[t]
               /\ committed'[Len(committed')].start = end_of_last_chunk
               /\ tacc'[t].start = end_of_last_chunk
               /\ end_of_last_chunk' = tacc'[t].end
               /\ tacc[t].start # end_of_last_chunk =>
                    /\ txcc'[t].start = end_of_last_chunk
                    /\ txcc'[t].start_exact]_vars

\* A chunk that was read from a wrong place has been read again and committed
\* after another chunk: it holds rows, and its expected start was made exact.
C34_Witness ==
  /\ rpc = "parallel"
  /\ Len(committed) >= 2
  /\ LastCommitted.used_nrows > 0
  /\ LastCommitted.start > input_start
  /\ \E t \in Threads :
       /\ tpc[t] = "loop"
       /\ ti[t] = LastCommitted.chunk
       /\ ti[t] > 0
       /\ nthreads > 1
       /\ txcc[t].start_exact

\* C35: nrows_written <= nrows_allocated <= nrows_max after every ordered
\* section; a chunk whose rows would take the total above nrows_max keeps
\* nrows_max - nrows_written of them, nrows_written becomes nrows_max and a
\* stop is requested, so that no chunk is committed after it; when read_all
\* returns, the output has nrows_written rows.
C35_RowLimit ==
  /\ [](/\ nrows_written <= nrows_allocated
        /\ nrows_allocated <= nrows_max
        /\ \A m \in Commits :
             m < Len(committed) => committed[m].used_nrows = committed[m].read_nrows
        /\ rpc = "returned" => columns_nrows = nrows_written)
  /\ [][\A t \in Threads :
          CommitsChunk(t) =>
            LET c == committed'[Len(committed')]
            IN IF nrows_written + c.read_nrows > nrows_max
               THEN /\ c.used_nrows = nrows_max - nrows_written
                    /\ used_nrows'[t] = nrows_max - nrows_written
                    /\ nrows_written' = nrows_max
                    /\ roem'.stop
               ELSE /\ c.used_nrows = c.read_nrows
                    /\ used_nrows'[t] = c.read_nrows
                    /\ nrows_written' = nrows_written + c.read_nrows
                    /\ roem' = roem]_vars

\* read_all has returned after the second chunk or a later one was cut to
\* the rows left under nrows_max, the output having been reallocated.
C35_Witness ==
  /\ rpc = "returned"
  /\ Len(committed) >= 2
  /\ LastCommitted.used_nrows > 0
  /\ LastCommitted.used_nrows < LastCommitted.read_nrows
  /\ nrows_written = nrows_max
  /\ columns_nrows = nrows_max
  /\ roem.stop

RunsOrdered(t) == rpc = "parallel" /\ tpc[t] = "ordered" /\ tpc'[t] = "loop"
\* Thread t passes the test of the exception after the loop in this step.
PassesDiscard(t) == rpc = "parallel" /\ tpc[t] = "barrier" /\ tpc'[t] = "push"
\* Thread t passes the last push in this step.
PassesLastPush(t) == rpc = "parallel" /\ tpc[t] = "push" /\ tpc'[t] = "done"
\* The buffers pushed to the output hold rows of committed chunks only.
PushedWereCommitted ==
  \A b \in pushed :
    \E m \in Commits :
      committed[m].row0 = b.row0 /\ committed[m].used_nrows = b.used_nrows

\* An ordered section that finds a stop requested sets used_nrows to 0 and
\* leaves nrows_written and end_of_last_chunk alone; nothing but committed
\* chunks is pushed; a captured exception is rethrown, and the output row
\* count is not set then.
StopKeepsRowsOut ==
  /\ [](PushedWereCommitted /\ (rpc \in {"returned", "assertion_failed"} => ~roem.exc))
  /\ [][/\ \A t \in Threads :
             (RunsOrdered(t) /\ roem.stop) =>
               /\ used_nrows'[t] = 0
               /\ nrows_written' = nrows_written
               /\ end_of_last_chunk' = end_of_last_chunk
               /\ committed' = committed
        /\ (rpc = "parallel" /\ rpc' # "parallel") =>
             IF roem.exc THEN rpc' = "rethrown" /\ columns_nrows' = columns_nrows
             ELSE rpc' # "rethrown"]_vars

\* C37 as claimed: a chunk ordered after a stop was requested contributes no
\* rows, and once an exception was captured no thread pushes its buffer in
\* the last push. Refuted: an exception thrown by the last push of one thread
\* comes after the test of the threads that have not pushed yet.
C37_Original ==
  /\ StopKeepsRowsOut
  /\ [][\A t \in Threads :
          (PassesLastPush(t) /\ roem.exc) => pushed' = pushed]_vars

\* C37 as amended: a chunk ordered after a stop was requested contributes no
\* rows; when an exception was captured before a thread is through the loop,
\* the thread discards its buffer and its last push pushes nothing; the
\* exception is rethrown after the parallel region and the output row count
\* is not set.
C37_StopDiscards ==
  /\ StopKeepsRowsOut
  /\ [][\A t \in Threads :
          /\ (PassesDiscard(t) /\ roem.exc) => used_nrows'[t] = 0
          /\ (PassesLastPush(t) /\ used_nrows[t] = 0) => pushed' = pushed]_vars

\* An exception was captured in the loop and rethrown; a chunk that had been
\* committed with rows was never pushed, and a later chunk was not committed.
C37_Witness ==
  /\ rpc = "rethrown"
  /\ nthreads = 2
  /\ Len(committed) < chunk_count
  /\ \A t \in Threads : used_nrows[t] = 0
  /\ \E m \in Commits :
       /\ committed[m].used_nrows > 0
       /\ [row0 |-> committed[m].row0,
           used_nrows |-> committed[m].used_nrows] \notin pushed

\* The used rows of the first m committed chunks.
RECURSIVE UsedRowsOfFirst(_)
UsedRowsOfFirst(m) ==
  IF m = 0 THEN 0 ELSE UsedRowsOfFirst(m - 1) + committed[m].used_nrows
\* The rows of the output that a buffer takes.
RowRange(b) == b.row0..(b.row0 + b.used_nrows - 1)
\* Thread t holds the rows of a chunk it has committed.
HoldsCommitted(t) ==
  /\ tpc[t] \in {"loop", "read", "barrier", "push", "done"}
  /\ used_nrows[t] > 0

\* C38: the row0 of a committed chunk is the sum of the used rows of the
\* chunks committed before it; the row ranges of the chunks are pairwise
\* disjoint, contiguous from row 0 and in the order of the chunks in the
\* input; the buffers the threads hold and push have these ranges.
C38_RowRanges ==
  /\ \A m \in Commits : committed[m].row0 = UsedRowsOfFirst(m - 1)
  /\ UsedRowsOfFirst(Len(committed)) = nrows_written
  /\ \A m, n \in Commits :
       m < n =>
         /\ committed[m].start <= committed[n].start
         /\ committed[m].row0 + committed[m].used_nrows <= committed[n].row0
         /\ RowRange(committed[m]) \cap RowRange(committed[n]) = {}
  /\ UNION {RowRange(committed[m]) : m \in Commits} = 0..(nrows_written - 1)
  /\ rpc \notin {"none", "start"} =>
       \A t \in Threads :
         HoldsCommitted(t) =>
           \E m \in Commits :
             /\ committed[m].row0 = row0[t]
             /\ committed[m].used_nrows = used_nrows[t]
  /\ \A b \in pushed :
       /\ \E m \in Commits : committed[m].row0 = b.row0
                              /\ committed[m].used_nrows = b.used_nrows
       /\ \A d \in pushed : b # d => RowRange(b) \cap RowRange(d) = {}
  /\ rpc = "returned" =>
       UNION {RowRange(b) : b \in pushed} = 0..(nrows_written - 1)

\* read_all has returned the rows of three chunks or more read by two
\* threads, one chunk of several rows, every buffer pushed.
C38_Witness ==
  /\ rpc = "returned"
  /\ nthreads = 2
  /\ Cardinality(pushed) >= 3
  /\ \E b \in pushed : b.row0 > 0 /\ b.used_nrows >= 2
  /\ \E t \in Threads : ti[t] > 0 /\ txcc[t].start_exact
====
